---------------------------- MODULE Spec2Model ----------------------------
(***************************************************************************)
(* A model of the placement-cost engine PlacementCost of                   *)
(* CodeElements/Plc_client/plc_client_os.py.                               *)
(*                                                                         *)
(* The engine object is the record plc; its fields carry the names of the  *)
(* attributes of the Python object, and modules_w_pins holds one record    *)
(* per Port / HardMacro / SoftMacro / HardMacroPin / SoftMacroPin object.  *)
(* Every method is an operator from an engine record (self) and its        *)
(* arguments to the engine record the method leaves behind, so that calls  *)
(* compose as they do in the program.                                      *)
(*                                                                         *)
(* Lengths are integers counting half-microns: the canvas and grid         *)
(* choices below keep every cell size even, so that cell centres and box   *)
(* corners are exact.  Quotients the program computes in floating point    *)
(* (densities, congestion) are exact rationals <<numerator, denominator>>. *)
(* Python lists are functions on 0 .. n-1.                                 *)
(***************************************************************************)
EXTENDS Integers, Sequences, FiniteSets, TLC

VARIABLES
    plc,        \* the PlacementCost object
    call,       \* the most recent API call: [op, node_idx, arg]
    ret,        \* its outcome: [kind |-> "ok" | "raise" | "exit", val |-> ...]
    plc_file    \* the placement file on disk: a sequence of lines of characters

vars == <<plc, call, ret, plc_file>>

\* ------------------------------------------------------------------ bounds

\* place_node appends to placed_macro on every call: the list is capped.
MaxPlaced == 3

\* ------------------------------------------------------------- Python lists

Max(a, b) == IF a >= b THEN a ELSE b
Min(a, b) == IF a <= b THEN a ELSE b
Abs(a) == IF a < 0 THEN -a ELSE a

\* A Python list of n copies of v.
PyList(n, v) == [i \in 0 .. n - 1 |-> v]
PyLen(l) == Cardinality(DOMAIN l)

\* A TLA+ sequence as a Python list, and back.
ToPy(s) == [i \in 0 .. Len(s) - 1 |-> s[i + 1]]
ToSeq(l) == [i \in 1 .. PyLen(l) |-> l[i - 1]]

\* sorted(l) for a list (a sequence here) of distinct integers.
RECURSIVE SortedInts(_)
SortedInts(S) ==
    IF S = {} THEN <<>>
    ELSE LET m == CHOOSE a \in S : \A b \in S : a <= b
         IN <<m>> \o SortedInts(S \ {m})

SeqSet(s) == {s[i] : i \in 1 .. Len(s)}

\* list.remove(v): the list without the first occurrence of v.
ListRemove(s, v) ==
    LET k == CHOOSE i \in 1 .. Len(s) :
                 s[i] = v /\ \A j \in 1 .. i - 1 : s[j] # v
    IN SubSeq(s, 1, k - 1) \o SubSeq(s, k + 1, Len(s))

\* A dict with d[k] = v.
DictSet(d, k, v) == [a \in DOMAIN d \cup {k} |-> IF a = k THEN v ELSE d[a]]

\* ------------------------------------------------------------------ netlist

\* The parsed nodes of a netlist file, in file order.  A name is the
\* result of name.rsplit('/', 1): <<macro>> or <<macro, pin>>.

\* A port driving the pin of a hard macro, which drives the pin of a soft
\* macro, which drives the port.
NetlistStd ==
    << [name |-> <<"P0">>, type |-> "PORT", x |-> 0, y |-> 1,
        side |-> "LEFT", input |-> << <<"H1", "p">> >>],
       [name |-> <<"H1">>, type |-> "MACRO", x |-> 4, y |-> 1,
        width |-> 4, height |-> 2, orientation |-> "N", input |-> <<>>],
       [name |-> <<"H1", "p">>, type |-> "MACRO_PIN", x |-> 4, y |-> 1,
        x_offset |-> 1, y_offset |-> 2, macro_name |-> <<"H1">>,
        weight |-> 2, input |-> << <<"S1", "p">> >>],
       [name |-> <<"S1">>, type |-> "macro", x |-> 1, y |-> 1,
        width |-> 2, height |-> 2, input |-> <<>>],
       [name |-> <<"S1", "p">>, type |-> "macro_pin", x |-> 1, y |-> 1,
        macro_name |-> <<"S1">>, weight |-> 1, input |-> << <<"P0">> >>] >>

\* The two macros alone: the hard macro's pin drives the soft macro's pin.
NetlistMacros ==
    << [name |-> <<"H1">>, type |-> "MACRO", x |-> 4, y |-> 1,
        width |-> 4, height |-> 2, orientation |-> "N", input |-> <<>>],
       [name |-> <<"H1", "p">>, type |-> "MACRO_PIN", x |-> 4, y |-> 1,
        x_offset |-> 1, y_offset |-> 2, macro_name |-> <<"H1">>,
        weight |-> 2, input |-> << <<"S1", "p">> >>],
       [name |-> <<"S1">>, type |-> "macro", x |-> 1, y |-> 1,
        width |-> 2, height |-> 2, input |-> <<>>],
       [name |-> <<"S1", "p">>, type |-> "macro_pin", x |-> 1, y |-> 1,
        macro_name |-> <<"S1">>, weight |-> 1, input |-> <<>>] >>

\* ------------------------------------------------------------ entity classes

\* add_sink: a port's name has no slash and keys itself; a pin is filed
\* under its macro.
add_sink(sink, sink_name) ==
    IF Len(sink_name) = 1
    THEN DictSet(sink, sink_name[1], <<sink_name>>)
    ELSE IF sink_name[1] \in DOMAIN sink
         THEN DictSet(sink, sink_name[1], Append(sink[sink_name[1]], sink_name))
         ELSE DictSet(sink, sink_name[1], <<sink_name>>)

RECURSIVE add_sinks(_, _)
add_sinks(sink, sink_names) ==
    IF sink_names = <<>> THEN sink
    ELSE add_sinks(add_sink(sink, Head(sink_names)), Tail(sink_names))

\* Port.add_connection.
port_add_connection(connection, module_name) ==
    IF Len(module_name) = 1
    THEN DictSet(connection, module_name[1], 1)
    ELSE IF module_name[1] \in DOMAIN connection
         THEN DictSet(connection, module_name[1], connection[module_name[1]] + 1)
         ELSE DictSet(connection, module_name[1], 1)

RECURSIVE port_add_connections(_, _)
port_add_connections(connection, module_names) ==
    IF module_names = <<>> THEN connection
    ELSE port_add_connections(port_add_connection(connection, Head(module_names)),
                              Tail(module_names))

\* HardMacro.add_connection and SoftMacro.add_connection (the same code).
add_connection(connection, module_name, weight) ==
    IF Len(module_name) = 1
    THEN DictSet(connection, module_name[1], 1 * weight)
    ELSE IF module_name[1] \in DOMAIN connection
         THEN DictSet(connection, module_name[1],
                      connection[module_name[1]] + 1 * weight)
         ELSE DictSet(connection, module_name[1], 1 * weight)

RECURSIVE add_connections(_, _, _)
add_connections(connection, module_names, weight) ==
    IF module_names = <<>> THEN connection
    ELSE add_connections(add_connection(connection, Head(module_names), weight),
                         Tail(module_names), weight)

Port(node) ==
    [cls |-> "Port", name |-> node.name, x |-> node.x, y |-> node.y,
     side |-> node.side,
     sink |-> add_sinks(<<>>, node.input),
     connection |-> port_add_connections(<<>>, node.input),
     fix_flag |-> TRUE, orientation |-> "None", ifPlaced |-> TRUE]

SoftMacro(node) ==
    [cls |-> "SoftMacro", name |-> node.name,
     width |-> node.width, height |-> node.height, x |-> node.x, y |-> node.y,
     connection |-> <<>>, orientation |-> "None",
     fix_flag |-> FALSE, ifPlaced |-> TRUE]

SoftMacroPin(node) ==
    [cls |-> "SoftMacroPin", name |-> node.name, x |-> node.x, y |-> node.y,
     x_offset |-> 0, y_offset |-> 0, macro_name |-> node.macro_name,
     weight |-> node.weight, sink |-> add_sinks(<<>>, node.input)]

HardMacro(node) ==
    [cls |-> "HardMacro", name |-> node.name,
     width |-> node.width, height |-> node.height, x |-> node.x, y |-> node.y,
     orientation |-> node.orientation, connection |-> <<>>,
     fix_flag |-> FALSE, ifPlaced |-> TRUE]

HardMacroPin(node) ==
    [cls |-> "HardMacroPin", name |-> node.name, x |-> node.x, y |-> node.y,
     x_offset |-> node.x_offset, y_offset |-> node.y_offset,
     macro_name |-> node.macro_name, weight |-> node.weight,
     sink |-> add_sinks(<<>>, node.input), ifPlaced |-> TRUE]

get_type(mod) ==
    CASE mod.cls = "Port" -> "PORT"
      [] mod.cls \in {"SoftMacro", "HardMacro"} -> "MACRO"
      [] mod.cls \in {"SoftMacroPin", "HardMacroPin"} -> "MACRO_PIN"

get_width(mod) == IF mod.cls = "Port" THEN 0 ELSE mod.width
get_height(mod) == IF mod.cls = "Port" THEN 0 ELSE mod.height

\* ------------------------------------------------------------- construction

PyAppend(l, v) == [i \in 0 .. PyLen(l) |-> IF i < PyLen(l) THEN l[i] ELSE v]

\* The attributes __init__ sets before it reads the netlist.
NewPlacementCost ==
    [FLAG_UPDATE_WIRELENGTH |-> TRUE,
     FLAG_UPDATE_DENSITY |-> TRUE,
     FLAG_UPDATE_CONGESTION |-> TRUE,
     FLAG_UPDATE_NODE_MASK |-> TRUE,
     hroutes_per_micron |-> 0,
     vroutes_per_micron |-> 0,
     smooth_range |-> 0,
     overlap_thres |-> 0,
     hrouting_alloc |-> 0,
     vrouting_alloc |-> 0,
     canvas_boundary_check |-> TRUE,
     net_cnt |-> 0,
     modules_w_pins |-> <<>>,
     mod_name_to_indices |-> <<>>,
     port_indices |-> <<>>,
     hard_macro_indices |-> <<>>,
     hard_macro_pin_indices |-> <<>>,
     soft_macro_indices |-> <<>>,
     soft_macro_pin_indices |-> <<>>,
     hard_macros_to_inpins |-> <<>>,
     soft_macros_to_inpins |-> <<>>,
     placed_macro |-> <<>>]

\* to_inpins[macro_name].append(pin_name), creating the list when missing.
inpins_append(to_inpins, macro_name, pin_name) ==
    IF macro_name \in DOMAIN to_inpins
    THEN DictSet(to_inpins, macro_name, Append(to_inpins[macro_name], pin_name))
    ELSE DictSet(to_inpins, macro_name, <<pin_name>>)

\* One `node { ... }` record of __read_protobuf; idx is node_cnt - 1.
read_node(self, node, idx) ==
    LET named == [self EXCEPT
                    !.mod_name_to_indices = DictSet(@, node.name, idx)]
    IN CASE node.type = "macro" ->
              [named EXCEPT
                 !.modules_w_pins = PyAppend(@, SoftMacro(node)),
                 !.soft_macro_indices = Append(@, idx)]
         [] node.type = "macro_pin" ->
              [named EXCEPT
                 !.modules_w_pins = PyAppend(@, SoftMacroPin(node)),
                 !.net_cnt = IF node.input # <<>> THEN @ + 1 * node.weight ELSE @,
                 !.soft_macro_pin_indices = Append(@, idx),
                 !.soft_macros_to_inpins =
                     inpins_append(@, node.name[1], node.name)]
         [] node.type = "MACRO" ->
              [named EXCEPT
                 !.modules_w_pins = PyAppend(@, HardMacro(node)),
                 !.hard_macro_indices = Append(@, idx)]
         [] node.type = "MACRO_PIN" ->
              [named EXCEPT
                 !.modules_w_pins = PyAppend(@, HardMacroPin(node)),
                 !.net_cnt = IF node.input # <<>> THEN @ + 1 * node.weight ELSE @,
                 !.hard_macro_pin_indices = Append(@, idx),
                 !.hard_macros_to_inpins =
                     inpins_append(@, node.name[1], node.name)]
         [] node.type = "PORT" ->
              [named EXCEPT
                 !.modules_w_pins = PyAppend(@, Port(node)),
                 !.net_cnt = IF node.input # <<>> THEN @ + 1 ELSE @,
                 !.port_indices = Append(@, idx)]

RECURSIVE read_nodes(_, _, _)
read_nodes(self, netlist, k) ==
    IF k > Len(netlist) THEN self
    ELSE read_nodes(read_node(self, netlist[k], k - 1), netlist, k + 1)

is_node_soft_macro(self, node_idx) == node_idx \in SeqSet(self.soft_macro_indices)
is_node_hard_macro(self, node_idx) == node_idx \in SeqSet(self.hard_macro_indices)

\* ------------------------------------------------------------- orientation

\* The if/elif chain with the branches of E and W exchanged.
rotate_offset_EW(orientation, x_offset, y_offset) ==
    CASE orientation = "N" -> <<x_offset, y_offset>>
      [] orientation = "FN" -> <<-x_offset, y_offset>>
      [] orientation = "S" -> <<-x_offset, -y_offset>>
      [] orientation = "FS" -> <<x_offset, -y_offset>>
      [] orientation = "W" -> <<y_offset, -x_offset>>
      [] orientation = "FE" -> <<-y_offset, -x_offset>>
      [] orientation = "E" -> <<-y_offset, x_offset>>
      [] orientation = "FW" -> <<y_offset, x_offset>>
      [] OTHER -> <<x_offset, y_offset>>

\* The if/elif chain of update_macro_orientation on one pin offset.
rotate_offset(orientation, x_offset, y_offset) ==
    CASE orientation = "N" -> <<x_offset, y_offset>>
      [] orientation = "FN" -> <<-x_offset, y_offset>>
      [] orientation = "S" -> <<-x_offset, -y_offset>>
      [] orientation = "FS" -> <<x_offset, -y_offset>>
      [] orientation = "E" -> <<y_offset, -x_offset>>
      [] orientation = "FE" -> <<-y_offset, -x_offset>>
      [] orientation = "W" -> <<-y_offset, x_offset>>
      [] orientation = "FW" -> <<y_offset, x_offset>>
      [] OTHER -> <<x_offset, y_offset>>

RECURSIVE rotate_pins(_, _, _)
rotate_pins(self, pin_names, orientation) ==
    IF pin_names = <<>> THEN self
    ELSE LET pin_idx == self.mod_name_to_indices[Head(pin_names)]
             pin == self.modules_w_pins[pin_idx]
             off == rotate_offset(orientation, pin.x_offset, pin.y_offset)
         IN rotate_pins([self EXCEPT
                           !.modules_w_pins[pin_idx].x_offset = off[1],
                           !.modules_w_pins[pin_idx].y_offset = off[2]],
                        Tail(pin_names), orientation)

\* How update_macro_orientation ends: exit(1) on a module that is not of
\* type MACRO, KeyError on a macro with no entry in hard_macros_to_inpins
\* (every soft macro, and a hard macro without pins).
update_macro_orientation_ends(self, node_idx) ==
    LET mod == self.modules_w_pins[node_idx]
    IN CASE get_type(mod) # "MACRO" -> "exit"
         [] mod.name[1] \notin DOMAIN self.hard_macros_to_inpins -> "KeyError"
         [] OTHER -> "ok"

\* update_macro_orientation: it sets the orientation and transforms the
\* offset every pin of the macro holds at the time of the call.
update_macro_orientation(self, node_idx, orientation) ==
    LET oriented == [self EXCEPT
                       !.modules_w_pins[node_idx].orientation = orientation]
        macro_name == self.modules_w_pins[node_idx].name
        ends == update_macro_orientation_ends(self, node_idx)
    IN CASE ends = "exit" -> self
         [] ends = "KeyError" -> oriented
         [] OTHER -> rotate_pins(oriented,
                                 self.hard_macros_to_inpins[macro_name[1]],
                                 orientation)

\* --------------------------------------------------------------- connections

\* for k in inputs.keys(): macro.add_connections(inputs[k], weight)
RECURSIVE connect_keys(_, _, _, _)
connect_keys(connection, inputs, keys, weight) ==
    IF keys = {} THEN connection
    ELSE LET k == CHOOSE a \in keys : TRUE
         IN connect_keys(add_connections(connection, inputs[k], weight),
                         inputs, keys \ {k}, weight)

RECURSIVE connect_pins(_, _, _)
connect_pins(self, macro_idx, pin_names) ==
    IF pin_names = <<>> THEN self
    ELSE LET pin == self.modules_w_pins[self.mod_name_to_indices[Head(pin_names)]]
             inputs == pin.sink
         IN connect_pins(
                [self EXCEPT !.modules_w_pins[macro_idx].connection =
                     connect_keys(@, inputs, DOMAIN inputs, pin.weight)],
                macro_idx, Tail(pin_names))

\* One iteration of the loop of __update_connection.
update_connection_of(self, macro_idx) ==
    LET macro == self.modules_w_pins[macro_idx]
        macro_name == macro.name[1]
    IN IF ~ is_node_soft_macro(self, macro_idx)
       THEN IF macro_name \in DOMAIN self.hard_macros_to_inpins
            THEN connect_pins(
                     update_macro_orientation(self, macro_idx, macro.orientation),
                     macro_idx, self.hard_macros_to_inpins[macro_name])
            ELSE self
       ELSE IF macro_name \in DOMAIN self.soft_macros_to_inpins
            THEN connect_pins(self, macro_idx,
                              self.soft_macros_to_inpins[macro_name])
            ELSE self

RECURSIVE update_connection(_, _)
update_connection(self, macro_indices) ==
    IF macro_indices = <<>> THEN self
    ELSE update_connection(update_connection_of(self, Head(macro_indices)),
                           Tail(macro_indices))

\* __update_init_placed_node: every hard and soft macro starts in placed_macro.
update_init_placed_node(self) ==
    [self EXCEPT !.placed_macro =
         @ \o self.hard_macro_indices \o self.soft_macro_indices]

\* __read_protobuf.
read_protobuf(self, netlist) ==
    LET read == read_nodes(self, netlist, 1)
    IN update_init_placed_node(
           update_connection(read,
               read.hard_macro_indices \o read.soft_macro_indices))

\* --------------------------------------------------------------------- grid

\* self.grid_width / self.grid_height, recomputed from the canvas and the
\* grid before every use.
grid_width(self) == self.width \div self.grid_col
grid_height(self) == self.height \div self.grid_row

\* __get_grid_cell_location: (row, col) of a point, by floor division.
get_grid_cell_location(self, x_pos, y_pos) ==
    <<y_pos \div grid_height(self), x_pos \div grid_width(self)>>

\* __get_grid_location_position: the centre of cell (col, row).
get_grid_location_position(self, col, row) ==
    <<grid_width(self) * col + grid_width(self) \div 2,
      grid_height(self) * row + grid_height(self) \div 2>>

\* __get_grid_cell_position: Python's // and % floor, as \div and % do.
get_grid_cell_position(self, grid_cell_idx) ==
    get_grid_location_position(self, grid_cell_idx % self.grid_col,
                               grid_cell_idx \div self.grid_col)

\* math.ceil(a / b) for b > 0.
CeilDiv(a, b) == -((-a) \div b)

\* __node_pad_cell: ceil((mod/2 - cell/2) / cell) per axis.
node_pad_cell(self, mod_width, mod_height) ==
    <<CeilDiv(mod_width - grid_width(self), 2 * grid_width(self)),
      CeilDiv(mod_height - grid_height(self), 2 * grid_height(self))>>

\* The indices a[start:stop] selects on an axis of length n (numpy and
\* Python clip a slice and count a negative bound from the end).
SliceBound(i, n) == IF i < 0 THEN Max(i + n, 0) ELSE Min(i, n)
PySlice(start, stop, n) == SliceBound(start, n) .. SliceBound(stop, n) - 1

\* __reset_node_mask: an all-ones rows x cols array.
reset_node_mask(self) ==
    [self EXCEPT !.node_mask =
         [r \in 0 .. self.grid_row - 1 |-> [c \in 0 .. self.grid_col - 1 |-> 1]]]

\* __place_node_mask: zero the padded footprint around the cell.
place_node_mask(self, grid_cell_idx, mod_width, mod_height) ==
    LET row == grid_cell_idx \div self.grid_col
        col == grid_cell_idx % self.grid_col
        pad == node_pad_cell(self, mod_width, mod_height)
        hor_pad == pad[1]
        ver_pad == pad[2]
        rows == PySlice(row - ver_pad, row + ver_pad + 1, self.grid_row)
        cols == PySlice(col - hor_pad, col + hor_pad + 1, self.grid_col)
    IN [self EXCEPT !.node_mask =
           [r \in 0 .. self.grid_row - 1 |-> [c \in 0 .. self.grid_col - 1 |->
               IF r \in rows /\ c \in cols THEN 0 ELSE self.node_mask[r][c]]]]

Block(x_max, y_max, x_min, y_min) ==
    [x_max |-> x_max, y_max |-> y_max, x_min |-> x_min, y_min |-> y_min]

\* __overlap_area (return_pos = False).
overlap_area(block_i, block_j) ==
    LET x_diff == Min(block_i.x_max, block_j.x_max) - Max(block_i.x_min, block_j.x_min)
        y_diff == Min(block_i.y_max, block_j.y_max) - Max(block_i.y_min, block_j.y_min)
    IN IF x_diff >= 0 /\ y_diff >= 0 THEN x_diff * y_diff ELSE 0

\* set_canvas_size.
set_canvas_size(self, width, height) ==
    reset_node_mask([self EXCEPT !.width = width, !.height = height,
                                 !.FLAG_UPDATE_CONGESTION = TRUE,
                                 !.FLAG_UPDATE_DENSITY = TRUE,
                                 !.FLAG_UPDATE_NODE_MASK = TRUE])

\* set_placement_grid.
set_placement_grid(self, grid_col, grid_row) ==
    LET gridded == reset_node_mask(
                       [self EXCEPT !.grid_col = grid_col, !.grid_row = grid_row,
                                    !.FLAG_UPDATE_CONGESTION = TRUE,
                                    !.FLAG_UPDATE_DENSITY = TRUE,
                                    !.FLAG_UPDATE_NODE_MASK = TRUE])
    IN [gridded EXCEPT
          !.V_routing_cong = PyList(grid_col * grid_row, <<0, 1>>),
          !.H_routing_cong = PyList(grid_col * grid_row, <<0, 1>>),
          !.V_macro_routing_cong = PyList(grid_col * grid_row, <<0, 1>>),
          !.H_macro_routing_cong = PyList(grid_col * grid_row, <<0, 1>>)]

\* __init__ on a netlist, followed by the caller's set_canvas_size and
\* set_placement_grid: the default canvas side sqrt(area / 0.6) is
\* irrational in general, so the model starts from a configured engine.
\* grid_cells does not exist before the first density evaluation (<<>>).
PlacementCost(netlist, canvas, grid) ==
    LET read == read_protobuf(NewPlacementCost, netlist)
        built == [f \in DOMAIN read \cup
                        {"width", "height", "grid_col", "grid_row",
                         "V_routing_cong", "H_routing_cong",
                         "V_macro_routing_cong", "H_macro_routing_cong",
                         "node_mask", "grid_cells"} |->
                    CASE f \in DOMAIN read -> read[f]
                      [] f \in {"width", "height"} -> 0
                      [] f \in {"grid_col", "grid_row"} -> 10
                      [] f \in {"V_routing_cong", "H_routing_cong",
                                "V_macro_routing_cong", "H_macro_routing_cong"} ->
                             PyList(10 * 10, <<0, 1>>)
                      [] f = "node_mask" ->
                             [r \in 0 .. 9 |-> [c \in 0 .. 9 |-> 1]]
                      [] f = "grid_cells" -> <<>>]
    IN set_placement_grid(set_canvas_size(built, canvas[1], canvas[2]),
                          grid[1], grid[2])

\* ---------------------------------------------------------------- placement

get_fix_flag(mod) == mod.fix_flag
get_placed_flag(mod) == mod.ifPlaced

\* The indices the placement API accepts: ports, hard and soft macros.
Placeable(self) ==
    SeqSet(self.port_indices) \cup SeqSet(self.hard_macro_indices)
        \cup SeqSet(self.soft_macro_indices)

\* The body of place_node under `if not mod.get_fix_flag()`.
place_node_body(self, node_idx, grid_cell_idx) ==
    LET mod == self.modules_w_pins[node_idx]
        p == get_grid_cell_position(self, grid_cell_idx)
    IN place_node_mask(
           [self EXCEPT
              !.modules_w_pins[node_idx].x = p[1],
              !.modules_w_pins[node_idx].y = p[2],
              !.placed_macro = Append(@, self.mod_name_to_indices[mod.name]),
              !.modules_w_pins[node_idx].ifPlaced = TRUE,
              !.FLAG_UPDATE_CONGESTION = TRUE,
              !.FLAG_UPDATE_DENSITY = TRUE,
              !.FLAG_UPDATE_WIRELENGTH = TRUE],
           grid_cell_idx, get_width(mod), get_height(mod))

\* place_node with the test of the fixed flag left out.
place_node_any(self, node_idx, grid_cell_idx) ==
    place_node_body(self, node_idx, grid_cell_idx)

\* place_node.  The range assertion on grid_cell_idx is caught and only
\* prints a warning; the body runs for every module that is not fixed.
place_node(self, node_idx, grid_cell_idx) ==
    IF ~ get_fix_flag(self.modules_w_pins[node_idx])
    THEN place_node_body(self, node_idx, grid_cell_idx)
    ELSE self

\* unplace_node raises ValueError when placed_macro.remove(node_idx) does
\* not find a hard macro that is not fixed.
unplace_node_raises(self, node_idx) ==
    /\ ~ get_fix_flag(self.modules_w_pins[node_idx])
    /\ is_node_hard_macro(self, node_idx)
    /\ node_idx \notin SeqSet(self.placed_macro)

\* unplace_node: the engine it leaves, also when remove() raises after the
\* placed flag has been cleared.
unplace_node(self, node_idx) ==
    LET mod == self.modules_w_pins[node_idx]
        unplaced == [self EXCEPT !.modules_w_pins[node_idx].ifPlaced = FALSE]
        flagged(s) == [s EXCEPT !.FLAG_UPDATE_CONGESTION = TRUE,
                                !.FLAG_UPDATE_DENSITY = TRUE,
                                !.FLAG_UPDATE_WIRELENGTH = TRUE]
    IN IF ~ get_fix_flag(mod)
       THEN IF is_node_hard_macro(self, node_idx)
            THEN IF node_idx \in SeqSet(self.placed_macro)
                 THEN flagged([unplaced EXCEPT
                                 !.placed_macro = ListRemove(@, node_idx)])
                 ELSE unplaced
            ELSE IF is_node_soft_macro(self, node_idx)
                 THEN flagged(unplaced)
                 ELSE self
       ELSE self

RECURSIVE unplace_each(_, _)
unplace_each(self, indices) ==
    IF indices = <<>> THEN self
    ELSE LET mod == self.modules_w_pins[Head(indices)]
         IN unplace_each(
                IF get_fix_flag(mod) \/ ~ get_placed_flag(mod) THEN self
                ELSE [self EXCEPT !.modules_w_pins[Head(indices)].ifPlaced = FALSE],
                Tail(indices))

\* unplace_all_nodes.
unplace_all_nodes(self) ==
    reset_node_mask(
        [unplace_each(self, SortedInts(Placeable(self))) EXCEPT
           !.placed_macro = <<>>,
           !.FLAG_UPDATE_CONGESTION = TRUE,
           !.FLAG_UPDATE_DENSITY = TRUE,
           !.FLAG_UPDATE_WIRELENGTH = TRUE])

unfix_node_coord(self, node_idx) ==
    [self EXCEPT !.modules_w_pins[node_idx].fix_flag = FALSE]

fix_node_coord(self, node_idx) ==
    [self EXCEPT !.modules_w_pins[node_idx].fix_flag = TRUE]

\* The box of a module of size w x h centred on (x, y), in thousandths of
\* the length unit, so that the 1e-3 micron footprint of a port or pin
\* (2 thousandths of a half-micron) has an exact half.
MilliBlock(x, y, w, h) ==
    Block(1000 * x + w \div 2, 1000 * y + h \div 2,
          1000 * x - w \div 2, 1000 * y - h \div 2)

\* The inner loop of get_node_mask: some module of placed_macro whose
\* placed flag is set overlaps mod_block with positive area.
overlaps_placed(self, mod_block) ==
    \E k \in 1 .. Len(self.placed_macro) :
        LET pmod == self.modules_w_pins[self.placed_macro[k]]
        IN /\ get_placed_flag(pmod)
           /\ overlap_area(MilliBlock(pmod.x, pmod.y, 1000 * get_width(pmod),
                                      1000 * get_height(pmod)),
                           mod_block) > 0

\* get_node_mask, flattened row-major.
get_node_mask(self, node_idx) ==
    LET mod == self.modules_w_pins[node_idx]
        canvas_block == Block(1000 * self.width, 1000 * self.height, 0, 0)
        point == get_type(mod) \in {"PORT", "MACRO_PIN"}
        mod_w == IF point THEN 2 ELSE 1000 * get_width(mod)
        mod_h == IF point THEN 2 ELSE 1000 * get_height(mod)
    IN [cell \in 0 .. self.grid_row * self.grid_col - 1 |->
          LET i == cell \div self.grid_col
              j == cell % self.grid_col
              temp == get_grid_location_position(self, j, i)
              mod_block == MilliBlock(temp[1], temp[2], mod_w, mod_h)
          IN IF overlap_area(canvas_block, mod_block) # mod_w * mod_h
             THEN 0
             ELSE IF overlaps_placed(self, mod_block) THEN 0 ELSE 1]

\* can_place_node.
can_place_node(self, node_idx, grid_cell_idx) ==
    get_node_mask(self, node_idx)[grid_cell_idx]

\* ------------------------------------------------- the placement interface

\* The canvas (width, height) and grid (columns, rows) the caller sets:
\* three cells of 2 x 2 in a row.
Canvas == <<6, 2>>
Grid == <<3, 1>>

\* grid_cell_idx arguments: every cell, one index below and one above.
CellInputs(self) == -1 .. self.grid_col * self.grid_row

InRange(self, grid_cell_idx) ==
    grid_cell_idx \in 0 .. self.grid_col * self.grid_row - 1

Ok == [kind |-> "ok"]
Raise(exception) == [kind |-> "raise", val |-> exception]
Exit == [kind |-> "exit", val |-> 1]

\* exit(1) ends the process: no call follows it.
Alive == ret.kind # "exit"

InitPlace ==
    /\ plc = PlacementCost(NetlistMacros, Canvas, Grid)
    /\ call = [op |-> "init"]
    /\ ret = Ok
    /\ plc_file = <<>>

PlaceNode ==
    \E node_idx \in Placeable(plc), grid_cell_idx \in CellInputs(plc) :
        /\ Alive
        /\ \/ get_fix_flag(plc.modules_w_pins[node_idx])
           \/ Len(plc.placed_macro) < MaxPlaced
        /\ plc' = place_node(plc, node_idx, grid_cell_idx)
        /\ call' = [op |-> "place_node", node_idx |-> node_idx,
                    grid_cell_idx |-> grid_cell_idx]
        /\ ret' = Ok
        /\ UNCHANGED plc_file

UnplaceNode ==
    \E node_idx \in Placeable(plc) :
        /\ Alive
        /\ plc' = unplace_node(plc, node_idx)
        /\ call' = [op |-> "unplace_node", node_idx |-> node_idx]
        /\ ret' = IF unplace_node_raises(plc, node_idx)
                  THEN Raise("ValueError")
                  ELSE Ok
        /\ UNCHANGED plc_file

UnplaceAllNodes ==
    /\ Alive
    /\ plc' = unplace_all_nodes(plc)
    /\ call' = [op |-> "unplace_all_nodes"]
    /\ ret' = Ok
    /\ UNCHANGED plc_file

FixNodeCoord ==
    \E node_idx \in Placeable(plc) :
        /\ Alive
        /\ plc' = fix_node_coord(plc, node_idx)
        /\ call' = [op |-> "fix_node_coord", node_idx |-> node_idx]
        /\ ret' = Ok
        /\ UNCHANGED plc_file

UnfixNodeCoord ==
    \E node_idx \in Placeable(plc) :
        /\ Alive
        /\ plc' = unfix_node_coord(plc, node_idx)
        /\ call' = [op |-> "unfix_node_coord", node_idx |-> node_idx]
        /\ ret' = Ok
        /\ UNCHANGED plc_file

NextPlace ==
    \/ PlaceNode
    \/ UnplaceNode
    \/ UnplaceAllNodes
    \/ FixNodeCoord
    \/ UnfixNodeCoord

SpecPlace == InitPlace /\ [][NextPlace]_vars

\* ------------------------------------------------- properties of placement

\* What place_node and unplace_node may touch of module node_idx and of the
\* engine: position, placed flag, placed_macro, node_mask, the dirty flags.
PlaceFrame(self, node_idx) ==
    <<self.modules_w_pins[node_idx].x, self.modules_w_pins[node_idx].y,
      self.modules_w_pins[node_idx].ifPlaced,
      self.placed_macro, self.node_mask,
      self.FLAG_UPDATE_WIRELENGTH, self.FLAG_UPDATE_DENSITY,
      self.FLAG_UPDATE_CONGESTION, self.FLAG_UPDATE_NODE_MASK>>

\* C1: place_node(idx, c), for every c, and unplace_node(idx) on a module
\* whose fixed flag is set leave its position and placed flag, placed_macro,
\* node_mask and the four dirty flags unchanged.
C1_FixedNodeNoop ==
    [][(/\ call'.op \in {"place_node", "unplace_node"}
        /\ get_fix_flag(plc.modules_w_pins[call'.node_idx]))
       => PlaceFrame(plc', call'.node_idx) = PlaceFrame(plc, call'.node_idx)]_vars

\* C1 (witness): place_node has just been called with an in-range cell on
\* a module whose fixed flag is set.
C1_FixedNodePlaced ==
    /\ call.op = "place_node"
    /\ InRange(plc, call.grid_cell_idx)
    /\ get_fix_flag(plc.modules_w_pins[call.node_idx])

\* The centred box of a w x h module at (x, y) lies within the canvas.
BoxInCanvas(self, x, y, w, h) ==
    /\ 0 <= 2 * x - w /\ 2 * x + w <= 2 * self.width
    /\ 0 <= 2 * y - h /\ 2 * y + h <= 2 * self.height

\* Two centred boxes share a region of positive area.
BoxesOverlap(x1, y1, w1, h1, x2, y2, w2, h2) ==
    /\ 2 * Abs(x1 - x2) < w1 + w2
    /\ 2 * Abs(y1 - y2) < h1 + h2

\* The hard and soft macros whose placed flag is set.
PlacedMacros(self) ==
    {m \in SeqSet(self.hard_macro_indices) \cup SeqSet(self.soft_macro_indices) :
        get_placed_flag(self.modules_w_pins[m])}

\* C2: get_node_mask(i)[c] is 1 exactly when the box of i centred on the
\* centre of cell c lies within the canvas and overlaps no macro whose
\* placed flag is set.  (Violated: unplace_all_nodes empties placed_macro
\* while a fixed macro keeps its placed flag.)
C2_MaskIffFree ==
    \A i \in Placeable(plc), c \in 0 .. plc.grid_col * plc.grid_row - 1 :
        LET mod == plc.modules_w_pins[i]
            p == get_grid_cell_position(plc, c)
        IN (get_node_mask(plc, i)[c] = 1) <=>
               /\ BoxInCanvas(plc, p[1], p[2], get_width(mod), get_height(mod))
               /\ \A m \in PlacedMacros(plc) :
                      LET pmod == plc.modules_w_pins[m]
                      IN ~ BoxesOverlap(p[1], p[2], get_width(mod), get_height(mod),
                                        pmod.x, pmod.y,
                                        get_width(pmod), get_height(pmod))

\* C3: from every reachable state, place_node(i, c) then unplace_node(i) on
\* a module that is not fixed and an in-range cell restores the set of
\* indices in placed_macro and the dirty flags.  (Violated: unplace_node
\* leaves a soft macro in placed_macro.)
C3_PlaceUnplaceRestores ==
    \A i \in Placeable(plc), c \in 0 .. plc.grid_col * plc.grid_row - 1 :
        ~ get_fix_flag(plc.modules_w_pins[i]) =>
            LET after == unplace_node(place_node(plc, i, c), i)
            IN /\ SeqSet(after.placed_macro) = SeqSet(plc.placed_macro)
               /\ after.FLAG_UPDATE_WIRELENGTH = plc.FLAG_UPDATE_WIRELENGTH
               /\ after.FLAG_UPDATE_DENSITY = plc.FLAG_UPDATE_DENSITY
               /\ after.FLAG_UPDATE_CONGESTION = plc.FLAG_UPDATE_CONGESTION
               /\ after.FLAG_UPDATE_NODE_MASK = plc.FLAG_UPDATE_NODE_MASK

\* C8: with canvas_boundary_check true, a module that place_node has just
\* placed on a cell of the grid has its centred box inside the canvas.
\* (Violated: place_node never tests the canvas.)
C8_PlacedInsideCanvas ==
    (/\ call.op = "place_node"
     /\ InRange(plc, call.grid_cell_idx)
     /\ ~ get_fix_flag(plc.modules_w_pins[call.node_idx])
     /\ plc.canvas_boundary_check)
    => LET mod == plc.modules_w_pins[call.node_idx]
       IN BoxInCanvas(plc, mod.x, mod.y, get_width(mod), get_height(mod))

\* C9: place_node with a cell index outside 0 .. rows*cols-1 leaves the
\* module's position and placed flag, placed_macro, node_mask and the dirty
\* flags as they were.  (Violated: the failed range assertion is caught,
\* and a negative index passes it.)
C9_OutOfRangeNoop ==
    [][(/\ call'.op = "place_node"
        /\ ~ InRange(plc, call'.grid_cell_idx))
       => PlaceFrame(plc', call'.node_idx) = PlaceFrame(plc, call'.node_idx)]_vars

\* ----------------------------------------------- the orientation interface

Orientations == {"N", "FN", "S", "FS", "E", "FE", "W", "FW"}

InitOrient ==
    /\ plc = PlacementCost(NetlistStd, Canvas, Grid)
    /\ call = [op |-> "init"]
    /\ ret = Ok
    /\ plc_file = <<>>

UpdateMacroOrientation ==
    \E node_idx \in Placeable(plc), orientation \in Orientations :
        /\ Alive
        /\ plc' = update_macro_orientation(plc, node_idx, orientation)
        /\ call' = [op |-> "update_macro_orientation", node_idx |-> node_idx,
                    orientation |-> orientation]
        /\ ret' = LET ends == update_macro_orientation_ends(plc, node_idx)
                  IN CASE ends = "exit" -> Exit
                       [] ends = "KeyError" -> Raise("KeyError")
                       [] OTHER -> Ok
        /\ UNCHANGED plc_file

NextOrient == UpdateMacroOrientation

SpecOrient == InitOrient /\ [][NextOrient]_vars

\* ------------------------------------------------ properties of orientation

\* The pins of hard macro node_idx, as indices of modules_w_pins.
PinsOf(self, node_idx) ==
    {p \in SeqSet(self.hard_macro_pin_indices) :
        self.modules_w_pins[p].macro_name = self.modules_w_pins[node_idx].name}

\* The offset a pin was parsed with: the offset relative to orientation N.
ParsedOffset(pin_idx) ==
    <<NetlistStd[pin_idx + 1].x_offset, NetlistStd[pin_idx + 1].y_offset>>

PinOffset(self, pin_idx) ==
    <<self.modules_w_pins[pin_idx].x_offset, self.modules_w_pins[pin_idx].y_offset>>

HoldsParsedOffsets(self, node_idx) ==
    \A p \in PinsOf(self, node_idx) : PinOffset(self, p) = ParsedOffset(p)

\* The table of orientations as matrices <<a, b, c, d>>:
\* (dx, dy) becomes (a*dx + b*dy, c*dx + d*dy).
OrientationMatrix ==
    [o \in Orientations |->
        CASE o = "N" -> <<1, 0, 0, 1>>
          [] o = "FN" -> <<-1, 0, 0, 1>>
          [] o = "S" -> <<-1, 0, 0, -1>>
          [] o = "FS" -> <<1, 0, 0, -1>>
          [] o = "E" -> <<0, 1, -1, 0>>
          [] o = "FE" -> <<0, -1, -1, 0>>
          [] o = "W" -> <<0, -1, 1, 0>>
          [] o = "FW" -> <<0, 1, 1, 0>>]

TableOffset(o, d) ==
    LET m == OrientationMatrix[o]
    IN <<m[1] * d[1] + m[2] * d[2], m[3] * d[1] + m[4] * d[2]>>

\* C5: for a hard macro whose pins hold their parsed offsets (dx, dy),
\* update_macro_orientation(M, o) called twice in a row leaves every pin at
\* the table entry of o applied to (dx, dy).  (Violated: the second call
\* transforms the offsets the first call left.)
C5_TwiceGivesTable ==
    \A node_idx \in SeqSet(plc.hard_macro_indices), o \in Orientations :
        HoldsParsedOffsets(plc, node_idx) =>
            LET twice == update_macro_orientation(
                             update_macro_orientation(plc, node_idx, o), node_idx, o)
            IN \A p \in PinsOf(plc, node_idx) :
                   PinOffset(twice, p) = TableOffset(o, ParsedOffset(p))

\* C6: one update_macro_orientation(M, o) on a hard macro whose pins hold
\* their parsed (N-relative) offsets sets every pin offset to the table
\* value of o.
C6_SingleUpdateTable ==
    [][(/\ call'.op = "update_macro_orientation"
        /\ is_node_hard_macro(plc, call'.node_idx)
        /\ HoldsParsedOffsets(plc, call'.node_idx))
       => \A p \in PinsOf(plc, call'.node_idx) :
              PinOffset(plc', p) = TableOffset(call'.orientation, ParsedOffset(p))]_vars

\* C6 (witness): update_macro_orientation(H1, "FW") has just turned the
\* parsed offset (1, 2) of H1/p into (2, 1).
C6_FWMaps12To21 ==
    /\ call.op = "update_macro_orientation"
    /\ call.orientation = "FW"
    /\ is_node_hard_macro(plc, call.node_idx)
    /\ \E p \in PinsOf(plc, call.node_idx) :
           ParsedOffset(p) = <<1, 2>> /\ PinOffset(plc, p) = <<2, 1>>

\* ------------------------------------------------------------------ metrics

RECURSIVE Gcd(_, _)
Gcd(a, b) == IF b = 0 THEN a ELSE Gcd(b, a % b)

\* The quotient n / d (n >= 0, d > 0) as a fraction in lowest terms.
Rat(n, d) == LET g == Gcd(n, d) IN <<n \div g, d \div g>>

\* get_ref_node_id: the macro a pin belongs to, -1 for anything else.
get_ref_node_id(self, node_idx) ==
    IF /\ node_idx # -1
       /\ \/ node_idx \in SeqSet(self.soft_macro_pin_indices)
          \/ node_idx \in SeqSet(self.hard_macro_pin_indices)
    THEN self.mod_name_to_indices[self.modules_w_pins[node_idx].macro_name]
    ELSE -1

\* __get_pin_position returning pin_node.get_pos(), the position the pin was
\* parsed with.
get_pin_position_parsed(self, pin_idx) ==
    <<self.modules_w_pins[pin_idx].x, self.modules_w_pins[pin_idx].y>>

\* __get_pin_position of a port or a macro pin: a port's own position, a
\* pin's macro position plus the pin's offset.
get_pin_position(self, pin_idx) ==
    LET ref_node_idx == get_ref_node_id(self, pin_idx)
        pin_node == self.modules_w_pins[pin_idx]
    IN IF ref_node_idx = -1
       THEN <<pin_node.x, pin_node.y>>
       ELSE <<self.modules_w_pins[ref_node_idx].x + pin_node.x_offset,
              self.modules_w_pins[ref_node_idx].y + pin_node.y_offset>>

SetMax(S) == CHOOSE a \in S : \A b \in S : a >= b
SetMin(S) == CHOOSE a \in S : \A b \in S : a <= b

\* The term one module adds to total_hpwl in get_wirelength.
net_hpwl(self, mod_idx) ==
    LET mod == self.modules_w_pins[mod_idx]
        curr_type == get_type(mod)
        sinks == IF curr_type = "MACRO" THEN {}
                 ELSE UNION {SeqSet(mod.sink[k]) : k \in DOMAIN mod.sink}
        sink_pos == {get_pin_position(self, self.mod_name_to_indices[n]) :
                        n \in sinks}
        coord == CASE curr_type = "PORT" /\ sinks # {} ->
                          {<<mod.x, mod.y>>} \cup sink_pos
                   [] curr_type = "MACRO_PIN" ->
                          {get_pin_position(self, mod_idx)} \cup sink_pos
                   [] OTHER -> {}
        weight_fact == IF curr_type = "MACRO_PIN" THEN mod.weight ELSE 1
        x_coord == {c[1] : c \in coord}
        y_coord == {c[2] : c \in coord}
    IN IF coord = {} THEN 0
       ELSE weight_fact * (Abs(SetMax(x_coord) - SetMin(x_coord))
                           + Abs(SetMax(y_coord) - SetMin(y_coord)))

RECURSIVE sum_hpwl(_, _)
sum_hpwl(self, mod_idx) ==
    IF mod_idx >= PyLen(self.modules_w_pins) THEN 0
    ELSE net_hpwl(self, mod_idx) + sum_hpwl(self, mod_idx + 1)

\* get_wirelength.
get_wirelength(self) == sum_hpwl(self, 0)

\* get_cost: the engine it leaves, and what it returns or raises.
get_cost(self) == [self EXCEPT !.FLAG_UPDATE_WIRELENGTH = FALSE]

get_cost_ret(self) ==
    IF (self.width + self.height) * self.net_cnt = 0
    THEN Raise("ZeroDivisionError")
    ELSE [kind |-> "ok",
          val |-> Rat(get_wirelength(self),
                      (self.width + self.height) * self.net_cnt)]

\* __add_module_to_grid_cells on the list grid_occupied.
add_module_to_grid_cells(self, grid_occupied, mod_x, mod_y, mod_w, mod_h) ==
    LET module_block == Block(mod_x + mod_w \div 2, mod_y + mod_h \div 2,
                              mod_x - mod_w \div 2, mod_y - mod_h \div 2)
        ur == get_grid_cell_location(self, module_block.x_max, module_block.y_max)
        bl == get_grid_cell_location(self, module_block.x_min, module_block.y_min)
        bl_row == Max(bl[1], 0)
        bl_col == Max(bl[2], 0)
        ur_row == Min(ur[1], self.grid_row - 1)
        ur_col == Min(ur[2], self.grid_col - 1)
    IN IF ur[1] >= 0 /\ ur[2] >= 0
       THEN [cell \in DOMAIN grid_occupied |->
               LET r_i == cell \div self.grid_col
                   c_i == cell % self.grid_col
                   grid_cell_block == Block((c_i + 1) * grid_width(self),
                                            (r_i + 1) * grid_height(self),
                                            c_i * grid_width(self),
                                            r_i * grid_height(self))
               IN IF r_i \in bl_row .. ur_row /\ c_i \in bl_col .. ur_col
                  THEN grid_occupied[cell]
                           + overlap_area(grid_cell_block, module_block)
                  ELSE grid_occupied[cell]]
       ELSE grid_occupied

RECURSIVE add_modules_to_grid_cells(_, _, _)
add_modules_to_grid_cells(self, grid_occupied, module_indices) ==
    IF module_indices = <<>> THEN grid_occupied
    ELSE LET module == self.modules_w_pins[Head(module_indices)]
         IN add_modules_to_grid_cells(
                self,
                add_module_to_grid_cells(self, grid_occupied, module.x, module.y,
                                         get_width(module), get_height(module)),
                Tail(module_indices))

\* get_grid_cells_density: grid_cells[i] is the fraction
\* <<occupied area, cell area>> of cell i, not reduced.
get_grid_cells_density(self) ==
    LET grid_area == grid_width(self) * grid_height(self)
        grid_occupied ==
            add_modules_to_grid_cells(
                self, PyList(self.grid_col * self.grid_row, 0),
                self.soft_macro_indices \o self.hard_macro_indices)
    IN [self EXCEPT !.grid_cells =
           [i \in DOMAIN grid_occupied |-> <<grid_occupied[i], grid_area>>]]

\* The sum of the cnt largest numerators of a list of fractions.
RECURSIVE top_sum(_, _, _)
top_sum(cells, left, cnt) ==
    IF cnt = 0 \/ left = {} THEN 0
    ELSE LET i == CHOOSE a \in left : \A b \in left : cells[a][1] >= cells[b][1]
         IN cells[i][1] + top_sum(cells, left \ {i}, cnt - 1)

\* get_density_cost: the engine it leaves, and what it returns or raises.
get_density_cost(self) ==
    IF self.FLAG_UPDATE_DENSITY
    THEN [get_grid_cells_density(self) EXCEPT !.FLAG_UPDATE_DENSITY = FALSE]
    ELSE self

\* get_density_cost dividing by the number of cells it summed.
get_density_cost_ret_summed(self) ==
    LET grid_cells == get_density_cost(self).grid_cells
        occupied_cells == {i \in DOMAIN grid_cells : grid_cells[i][1] # 0}
        grid_area == grid_width(self) * grid_height(self)
        density_cnt == Min(PyLen(grid_cells) \div 10, Cardinality(occupied_cells))
    IN IF density_cnt = 0
       THEN Raise("ZeroDivisionError")
       ELSE [kind |-> "ok",
             val |-> Rat(top_sum(grid_cells, occupied_cells, density_cnt),
                         2 * grid_area * density_cnt)]

get_density_cost_ret(self) ==
    LET grid_cells == get_density_cost(self).grid_cells
        occupied_cells == {i \in DOMAIN grid_cells : grid_cells[i][1] # 0}
        grid_area == grid_width(self) * grid_height(self)
        density_cnt == PyLen(grid_cells) \div 10
    IN IF PyLen(grid_cells) < 10
       THEN IF occupied_cells = {}
            THEN Raise("ZeroDivisionError")
            ELSE [kind |-> "ok",
                  val |-> Rat(top_sum(grid_cells, occupied_cells,
                                      Cardinality(occupied_cells)),
                              2 * grid_area * Cardinality(occupied_cells))]
       ELSE [kind |-> "ok",
             val |-> Rat(top_sum(grid_cells, occupied_cells, density_cnt),
                         2 * grid_area * density_cnt)]

\* update_node_coords and set_soft_macro_position: set_pos, nothing else.
update_node_coords(self, node_idx, x_pos, y_pos) ==
    [self EXCEPT !.modules_w_pins[node_idx].x = x_pos,
                 !.modules_w_pins[node_idx].y = y_pos]

set_soft_macro_position(self, node_idx, x_pos, y_pos) ==
    [self EXCEPT !.modules_w_pins[node_idx].x = x_pos,
                 !.modules_w_pins[node_idx].y = y_pos]

\* --------------------------------------------------- the metrics interface

\* A soft macro alone: no pin, no port, no net.
NetlistNoNets ==
    << [name |-> <<"S1">>, type |-> "macro", x |-> 1, y |-> 1,
        width |-> 2, height |-> 2, input |-> <<>>] >>

\* The positions callers hand to update_node_coords and
\* set_soft_macro_position: one on the canvas, one a million microns out.
CoordInputs == {<<3, 1>>, <<2000000, 0>>}

InitCost ==
    /\ \E netlist \in {NetlistMacros, NetlistNoNets} :
           plc = PlacementCost(netlist, Canvas, Grid)
    /\ call = [op |-> "init"]
    /\ ret = Ok
    /\ plc_file = <<>>

GetCost ==
    /\ Alive
    /\ plc' = get_cost(plc)
    /\ call' = [op |-> "get_cost"]
    /\ ret' = get_cost_ret(plc)
    /\ UNCHANGED plc_file

GetDensityCost ==
    /\ Alive
    /\ plc' = get_density_cost(plc)
    /\ call' = [op |-> "get_density_cost"]
    /\ ret' = get_density_cost_ret(plc)
    /\ UNCHANGED plc_file

UpdateNodeCoords ==
    \E node_idx \in Placeable(plc), pos \in CoordInputs :
        /\ Alive
        /\ plc' = update_node_coords(plc, node_idx, pos[1], pos[2])
        /\ call' = [op |-> "update_node_coords", node_idx |-> node_idx]
        /\ ret' = Ok
        /\ UNCHANGED plc_file

SetSoftMacroPosition ==
    \E node_idx \in SeqSet(plc.soft_macro_indices), pos \in CoordInputs :
        /\ Alive
        /\ plc' = set_soft_macro_position(plc, node_idx, pos[1], pos[2])
        /\ call' = [op |-> "set_soft_macro_position", node_idx |-> node_idx]
        /\ ret' = Ok
        /\ UNCHANGED plc_file

\* set_canvas_boundary_check.
set_canvas_boundary_check(self, ifCheck) ==
    [self EXCEPT !.canvas_boundary_check = ifCheck]

SetCanvasBoundaryCheck ==
    \E ifCheck \in BOOLEAN :
        /\ Alive
        /\ plc' = set_canvas_boundary_check(plc, ifCheck)
        /\ call' = [op |-> "set_canvas_boundary_check"]
        /\ ret' = Ok
        /\ UNCHANGED plc_file

NextCost ==
    \/ GetCost
    \/ GetDensityCost
    \/ UpdateNodeCoords
    \/ SetSoftMacroPosition
    \/ UnplaceNode
    \/ UnplaceAllNodes
    \/ SetCanvasBoundaryCheck

SpecCost == InitCost /\ [][NextCost]_vars

\* --------------------------------------------------- properties of metrics

\* C4: get_density_cost returns what a computation from scratch over the
\* current positions, grid and configuration returns, whenever that
\* computation returns.  (Violated:
\* update_node_coords and set_soft_macro_position set no dirty flag.)
C4_DensityNeverStale ==
    LET fresh == get_density_cost_ret([plc EXCEPT !.FLAG_UPDATE_DENSITY = TRUE])
    IN (call.op = "get_density_cost" /\ fresh.kind = "ok") => ret = fresh

\* C10: get_cost and get_density_cost never raise, and return 0 for a
\* netlist without nets and for a grid of fewer than 10 cells none of which
\* is occupied.  (Violated: both divide by zero on these inputs.)
C10_GettersNeverRaise ==
    /\ call.op = "get_cost" =>
           /\ ret.kind = "ok"
           /\ plc.net_cnt = 0 => ret.val = <<0, 1>>
    /\ call.op = "get_density_cost" =>
           /\ ret.kind = "ok"
           /\ (\A i \in DOMAIN plc.grid_cells : plc.grid_cells[i][1] = 0)
                  => ret.val = <<0, 1>>

RECURSIVE SumInts(_)
SumInts(s) == IF s = <<>> THEN 0 ELSE Head(s) + SumInts(Tail(s))

\* The area of the macros of a set, in the order of their indices.
MacroAreas(self, macros) ==
    [k \in 1 .. Cardinality(macros) |->
        LET mod == self.modules_w_pins[SortedInts(macros)[k]]
        IN get_width(mod) * get_height(mod)]

\* C11: when every macro box lies inside the canvas, the densities that
\* get_grid_cells_density returns sum to the area of the macros whose placed
\* flag is set divided by the area of a cell.  (Violated: the test of the
\* placed flag is commented out, a macro removed with unplace_node still
\* counts.)
C11_DensitySumIsPlacedArea ==
    LET macros == SeqSet(plc.soft_macro_indices \o plc.hard_macro_indices)
        cells == get_grid_cells_density(plc).grid_cells
    IN (\A m \in macros :
            LET mod == plc.modules_w_pins[m]
            IN BoxInCanvas(plc, mod.x, mod.y, get_width(mod), get_height(mod)))
       => SumInts([k \in 1 .. PyLen(cells) |-> cells[k - 1][1]])
              = SumInts(MacroAreas(plc, PlacedMacros(plc)))

\* C14: with canvas_boundary_check false, get_node_mask gives 0 only to a
\* cell on which the module's box overlaps a macro whose placed flag is
\* set; with the check true, it gives 0 to every cell on which the box
\* leaves the canvas.  (Violated: get_node_mask never reads
\* canvas_boundary_check.)
C14_BoundaryCheckOff ==
    \A i \in Placeable(plc), c \in 0 .. plc.grid_col * plc.grid_row - 1 :
        LET mod == plc.modules_w_pins[i]
            p == get_grid_cell_position(plc, c)
            inside == BoxInCanvas(plc, p[1], p[2], get_width(mod), get_height(mod))
        IN IF plc.canvas_boundary_check
           THEN ~ inside => get_node_mask(plc, i)[c] = 0
           ELSE get_node_mask(plc, i)[c] = 0 =>
                    \E m \in PlacedMacros(plc) :
                        LET pmod == plc.modules_w_pins[m]
                        IN BoxesOverlap(p[1], p[2], get_width(mod), get_height(mod),
                                        pmod.x, pmod.y,
                                        get_width(pmod), get_height(pmod))

\* ---------------------------------------------------------- placement files

\* Text is a sequence of one-character strings, a file a sequence of lines
\* of text.  <<>> stands for a path at which there is no file: a file that
\* save_placement wrote has at least its comment line.

DigitChars == <<"0", "1", "2", "3", "4", "5", "6", "7", "8", "9">>
IsDigit(c) == \E d \in 1 .. 10 : DigitChars[d] = c
DigitValue(c) == (CHOOSE d \in 1 .. 10 : DigitChars[d] = c) - 1
Letters ==
    {"a", "b", "c", "d", "e", "f", "g", "h", "i", "j", "k", "l", "m", "n", "o", "p", "q", "r", "s", "t", "u", "v", "w", "x", "y", "z"}
        \cup {"A", "B", "C", "D", "E", "F", "G", "H", "I", "J", "K", "L", "M", "N", "O", "P", "Q", "R", "S", "T", "U", "V", "W", "X", "Y", "Z"}

RECURSIVE Pow10(_)
Pow10(k) == IF k = 0 THEN 1 ELSE 10 * Pow10(k - 1)

\* str(n) for an integer n >= 0.
RECURSIVE str_int(_)
str_int(n) ==
    IF n < 10 THEN <<DigitChars[n + 1]>>
    ELSE str_int(n \div 10) \o <<DigitChars[(n % 10) + 1]>>

\* int(digits) for a non-empty text of digits.
RECURSIVE digits_int(_)
digits_int(digits) ==
    IF digits = <<>> THEN 0
    ELSE 10 * digits_int(SubSeq(digits, 1, Len(digits) - 1))
             + DigitValue(digits[Len(digits)])

RECURSIVE strip_zeros(_)
strip_zeros(digits) ==
    IF Len(digits) > 1 /\ digits[Len(digits)] = "0"
    THEN strip_zeros(SubSeq(digits, 1, Len(digits) - 1))
    ELSE digits

\* '{:g}'.format(v) for the float v = pos / 2 (pos counts half-microns):
\* six significant digits, rounded half to even, trailing zeros removed,
\* fixed notation while the decimal exponent is below 6 and scientific
\* notation (d.ddddde+XX) from 1e+06 on.

\* The digits sig with the decimal point after the digit of 10^exp.
format_fixed(sig, exp) ==
    LET int_part == [i \in 1 .. exp + 1 |-> IF i <= Len(sig) THEN sig[i] ELSE "0"]
        frac_part == SubSeq(sig, exp + 2, Len(sig))
    IN IF exp < 0 THEN <<"0", ".">> \o sig
       ELSE IF frac_part = <<>> THEN int_part
       ELSE int_part \o <<".">> \o frac_part

format_scientific(sig, exp) ==
    (IF Len(sig) > 1 THEN <<sig[1], ".">> \o Tail(sig) ELSE sig)
        \o <<"e", "+">> \o (IF exp < 10 THEN <<"0">> ELSE <<>>) \o str_int(exp)

format_sig(pos, sig, exp) ==
    (IF pos < 0 THEN <<"-">> ELSE <<>>)
        \o (IF exp < 6 THEN format_fixed(sig, exp) ELSE format_scientific(sig, exp))

\* q + r / unit rounded to an integer, a tie going to the even one.
round_half_even(q, r, unit) ==
    IF 2 * r > unit \/ (2 * r = unit /\ q % 2 = 1) THEN q + 1 ELSE q

\* rounded holds the first six of len digits; rounding 999999.5 up carries
\* into a seventh.
format_rounded(pos, len, rounded) ==
    IF len > 6 /\ rounded = Pow10(6)
    THEN format_sig(pos, strip_zeros(str_int(rounded \div 10)), len - 1)
    ELSE format_sig(pos, strip_zeros(str_int(rounded)), len - 2)

\* tenths = |v| * 10 has len digits, of which the last len - 6 are dropped.
format_tenths(pos, tenths, len, unit) ==
    format_rounded(pos, len,
                   IF len > 6
                   THEN round_half_even(tenths \div unit, tenths % unit, unit)
                   ELSE tenths)

format_len(pos, tenths, len) ==
    format_tenths(pos, tenths, len, Pow10(IF len > 6 THEN len - 6 ELSE 0))

format_g(pos) ==
    IF pos = 0 THEN <<"0">>
    ELSE format_len(pos, Abs(pos) * 5, Len(str_int(Abs(pos) * 5)))

OrientChars(orientation) ==
    CASE orientation = "N" -> <<"N">>
      [] orientation = "FN" -> <<"F", "N">>
      [] orientation = "S" -> <<"S">>
      [] orientation = "FS" -> <<"F", "S">>
      [] orientation = "E" -> <<"E">>
      [] orientation = "FE" -> <<"F", "E">>
      [] orientation = "W" -> <<"W">>
      [] orientation = "FW" -> <<"F", "W">>

\* One data line of save_placement:
\* "{} {:g} {:g} {} {}".format(mod_idx, x, y, orientation or "-", fixed).
plc_line(self, mod_idx) ==
    LET mod == self.modules_w_pins[mod_idx]
    IN str_int(mod_idx) \o <<" ">> \o format_g(mod.x) \o <<" ">>
           \o format_g(mod.y) \o <<" ">>
           \o (IF mod.orientation = "None" THEN <<"-">>
               ELSE OrientChars(mod.orientation))
           \o <<" ">> \o (IF get_fix_flag(mod) THEN <<"1">> ELSE <<"0">>)

\* save_placement(filename, info): the lines of the file it writes, info
\* being given as info.split('\n').
save_placement(self, info) ==
    LET indices == SortedInts(Placeable(self))
    IN [i \in 1 .. Len(info) |-> <<"#", " ">> \o info[i]]
           \o [i \in 1 .. Len(indices) |-> plc_line(self, indices[i])]

\* re.findall(r'[0-9A-Za-z\.\-]+', line), scanning from position k with the
\* run cur in progress.
TokenChar(c) == IsDigit(c) \/ c \in Letters \/ c \in {".", "-"}

RECURSIVE findall(_, _, _)
findall(line, k, cur) ==
    LET done == IF cur = <<>> THEN <<>> ELSE <<cur>>
    IN IF k > Len(line) THEN done
       ELSE IF TokenChar(line[k]) THEN findall(line, k + 1, Append(cur, line[k]))
       ELSE done \o findall(line, k + 1, <<>>)

has(line_item, word) == word \in SeqSet(line_item)

\* The branches of __read_plc that take a line for a line of meta
\* information.
meta_line(line_item) ==
    \/ (has(line_item, <<"C", "o", "l", "u", "m", "n", "s">>) /\ has(line_item, <<"R", "o", "w", "s">>))
    \/ (has(line_item, <<"W", "i", "d", "t", "h">>) /\ has(line_item, <<"H", "e", "i", "g", "h", "t">>))
    \/ (has(line_item, <<"A", "r", "e", "a">>))
    \/ (has(line_item, <<"B", "l", "o", "c", "k">>))
    \/ (has(line_item, <<"R", "o", "u", "t", "e", "s">>) /\ has(line_item, <<"p", "e", "r">>) /\ has(line_item, <<"m", "i", "c", "r", "o", "n">>) /\ has(line_item, <<"h", "o", "r">>) /\ has(line_item, <<"v", "e", "r">>))
    \/ (has(line_item, <<"R", "o", "u", "t", "e", "s">>) /\ has(line_item, <<"u", "s", "e", "d">>) /\ has(line_item, <<"b", "y">>) /\ has(line_item, <<"m", "a", "c", "r", "o", "s">>) /\ has(line_item, <<"h", "o", "r">>) /\ has(line_item, <<"v", "e", "r">>))
    \/ (has(line_item, <<"S", "m", "o", "o", "t", "h", "i", "n", "g">>) /\ has(line_item, <<"f", "a", "c", "t", "o", "r">>))
    \/ (has(line_item, <<"O", "v", "e", "r", "l", "a", "p">>) /\ has(line_item, <<"t", "h", "r", "e", "s", "h", "o", "l", "d">>))
    \/ (has(line_item, <<"H", "A", "R", "D">>) /\ has(line_item, <<"M", "A", "C", "R", "O", "s">>)) /\ Len(line_item) = 3
    \/ (has(line_item, <<"H", "A", "R", "D">>) /\ has(line_item, <<"M", "A", "C", "R", "O">>) /\ has(line_item, <<"P", "I", "N", "s">>)) /\ Len(line_item) = 4
    \/ (has(line_item, <<"P", "O", "R", "T", "s">>)) /\ Len(line_item) = 2
    \/ (has(line_item, <<"S", "O", "F", "T">>) /\ has(line_item, <<"M", "A", "C", "R", "O", "s">>)) /\ Len(line_item) = 3
    \/ (has(line_item, <<"S", "O", "F", "T">>) /\ has(line_item, <<"M", "A", "C", "R", "O">>) /\ has(line_item, <<"P", "I", "N", "s">>)) /\ Len(line_item) = 4
    \/ (has(line_item, <<"S", "T", "D", "C", "E", "L", "L", "s">>)) /\ Len(line_item) = 2
    \/ (has(line_item, <<"M", "A", "C", "R", "O", "s">>)) /\ Len(line_item) = 2

\* re.match(r'[0-9FNEWS\.\-]+', it): the item starts with such a character.
data_item(it) ==
    IsDigit(it[1]) \/ it[1] \in {"F", "N", "E", "W", "S", ".", "-"}

\* The branch of __read_plc that takes a line for a data line.
data_line(line_item) ==
    /\ ~ meta_line(line_item)
    /\ \A i \in 1 .. Len(line_item) : data_item(line_item[i])
    /\ Len(line_item) = 5

\* int(text): defined on an optional sign and digits.
unsigned(text) ==
    IF text # <<>> /\ text[1] \in {"-", "+"} THEN Tail(text) ELSE text

int_ok(text) ==
    unsigned(text) # <<>>
        /\ \A i \in 1 .. Len(unsigned(text)) : IsDigit(unsigned(text)[i])

int_of(text) ==
    IF text[1] = "-" THEN - digits_int(unsigned(text))
    ELSE digits_int(unsigned(text))

\* The first position of text that holds a character of chars, or
\* Len(text) + 1.
first_of(text, chars) ==
    IF \E i \in 1 .. Len(text) : text[i] \in chars
    THEN SetMin({i \in 1 .. Len(text) : text[i] \in chars})
    ELSE Len(text) + 1

\* float(text): [sign]digits[.digits][e[sign]digits].  The integer digits,
\* the fraction digits and the exponent of the text:
mantissa_parts(mant, dot, has_exp, expo) ==
    [int_part |-> SubSeq(mant, 1, dot - 1),
     frac_part |-> SubSeq(mant, dot + 1, Len(mant)),
     has_exp |-> has_exp,
     expo |-> expo]

exponent_parts(body, e) ==
    mantissa_parts(SubSeq(body, 1, e - 1),
                   first_of(SubSeq(body, 1, e - 1), {"."}),
                   e <= Len(body),
                   SubSeq(body, e + 1, Len(body)))

float_parts(text) ==
    exponent_parts(unsigned(text), first_of(unsigned(text), {"e", "E"}))

float_ok(text) ==
    LET p == float_parts(text)
        digits == p.int_part \o p.frac_part
    IN /\ digits # <<>>
       /\ \A i \in 1 .. Len(digits) : IsDigit(digits[i])
       /\ p.has_exp => int_ok(p.expo)

\* The float as a count of half-microns: every text format_g writes names
\* a whole number of them.
float_of(text) ==
    LET p == float_parts(text)
        m == digits_int(p.int_part \o p.frac_part)
        k == (IF p.has_exp THEN int_of(p.expo) ELSE 0) - Len(p.frac_part)
        v == IF k >= 0 THEN 2 * m * Pow10(k) ELSE (2 * m) \div Pow10(-k)
    IN IF text[1] = "-" THEN -v ELSE v

\* __read_plc: node_plc as its keys in order of insertion and its values;
\* bad is set when int(line_item[0]) raises ValueError.
RECURSIVE read_plc(_, _, _)
read_plc(file, k, info_dict) ==
    IF k > Len(file) \/ info_dict.bad THEN info_dict
    ELSE LET line_item == findall(file[k], 1, <<>>)
         IN IF line_item # <<>> /\ data_line(line_item)
            THEN IF ~ int_ok(line_item[1])
                 THEN [info_dict EXCEPT !.bad = TRUE]
                 ELSE LET idx == int_of(line_item[1])
                      IN read_plc(file, k + 1,
                             [info_dict EXCEPT
                                !.keys = IF idx \in SeqSet(@) THEN @
                                         ELSE Append(@, idx),
                                !.node_plc = DictSet(@, idx, Tail(line_item))])
            ELSE read_plc(file, k + 1, info_dict)

\* The orientation an item of a data line names.
orient_of(text) ==
    IF \E o \in Orientations : OrientChars(o) = text
    THEN CHOOSE o \in Orientations : OrientChars(o) = text
    ELSE text

\* One iteration of the loop of restore_placement over node_plc: the try
\* block stops at the first item that does not convert and leaves what
\* follows it None.  Port has no set_orientation: AttributeError.
restore_module_raises(self, mod_idx, items) ==
    /\ float_ok(items[1]) /\ float_ok(items[2])
    /\ items[3] # <<"-">>
    /\ self.modules_w_pins[mod_idx].cls = "Port"

restore_module(self, mod_idx, items) ==
    LET x_ok == float_ok(items[1])
        y_ok == x_ok /\ float_ok(items[2])
        fix_ok == y_ok /\ int_ok(items[4])
        moved == [self EXCEPT
                    !.modules_w_pins[mod_idx].x =
                        IF x_ok THEN float_of(items[1]) ELSE "None",
                    !.modules_w_pins[mod_idx].y =
                        IF y_ok THEN float_of(items[2]) ELSE "None"]
        oriented == IF y_ok /\ items[3] # <<"-">>
                    THEN [moved EXCEPT !.modules_w_pins[mod_idx].orientation =
                                          orient_of(items[3])]
                    ELSE moved
    IN IF restore_module_raises(self, mod_idx, items) THEN moved
       ELSE IF fix_ok /\ int_of(items[4]) = 0
            THEN [oriented EXCEPT !.modules_w_pins[mod_idx].fix_flag = FALSE]
       ELSE IF fix_ok /\ int_of(items[4]) = 1
            THEN [oriented EXCEPT !.modules_w_pins[mod_idx].fix_flag = TRUE]
       ELSE oriented

RECURSIVE restore_modules(_, _, _)
restore_modules(self, keys, node_plc) ==
    IF keys = <<>> THEN [plc |-> self, ret |-> Ok]
    ELSE IF restore_module_raises(self, Head(keys), node_plc[Head(keys)])
         THEN [plc |-> restore_module(self, Head(keys), node_plc[Head(keys)]),
               ret |-> Raise("AttributeError")]
         ELSE restore_modules(
                  restore_module(self, Head(keys), node_plc[Head(keys)]),
                  Tail(keys), node_plc)

\* restore_placement(plc_pth) with its default flags: the engine it leaves
\* and how it ends.  exit(1) when the keys of node_plc are not the indices
\* of the ports and macros.
restore_placement(self, file) ==
    LET flagged == [self EXCEPT !.FLAG_UPDATE_CONGESTION = TRUE,
                                !.FLAG_UPDATE_DENSITY = TRUE,
                                !.FLAG_UPDATE_WIRELENGTH = TRUE,
                                !.FLAG_UPDATE_NODE_MASK = TRUE]
        info_dict == read_plc(file, 1,
                              [bad |-> FALSE, keys |-> <<>>, node_plc |-> <<>>])
    IN IF file = <<>>
       THEN [plc |-> flagged, ret |-> Raise("FileNotFoundError")]
       ELSE IF info_dict.bad
       THEN [plc |-> flagged, ret |-> Raise("ValueError")]
       ELSE IF SeqSet(info_dict.keys) # Placeable(self)
       THEN [plc |-> flagged, ret |-> Exit]
       ELSE restore_modules(flagged, info_dict.keys, info_dict.node_plc)

\* ------------------------------------------------------- the file interface

\* info = "": info.split('\n') is one empty line.
InfoInputs == { << <<>> >> }

\* The file an earlier run has saved with the hard macro turned to face east.
FileFacingEast ==
    LET self == PlacementCost(NetlistStd, Canvas, Grid)
    IN save_placement(
           update_macro_orientation(self, self.mod_name_to_indices[<<"H1">>], "E"),
           << <<>> >>)

\* The engine after construction; no file yet, or the file of the earlier run.
InitFile ==
    /\ plc = PlacementCost(NetlistStd, Canvas, Grid)
    /\ call = [op |-> "init"]
    /\ ret = Ok
    /\ plc_file \in {<<>>, FileFacingEast}

SavePlacement ==
    \E info \in InfoInputs :
        /\ Alive
        /\ plc_file' = save_placement(plc, info)
        /\ call' = [op |-> "save_placement"]
        /\ ret' = Ok
        /\ UNCHANGED plc

RestorePlacement ==
    /\ Alive
    /\ plc' = restore_placement(plc, plc_file).plc
    /\ call' = [op |-> "restore_placement"]
    /\ ret' = restore_placement(plc, plc_file).ret
    /\ UNCHANGED plc_file

NextFile ==
    \/ SavePlacement
    \/ RestorePlacement
    \/ UpdateNodeCoords
    \/ UnfixNodeCoord

SpecFile == InitFile /\ [][NextFile]_vars

\* --------------------------------------------------------- properties of files

\* (position, orientation, fixed flag) of every port and macro.
PlacementOf(self) ==
    [i \in Placeable(self) |->
        <<self.modules_w_pins[i].x, self.modules_w_pins[i].y,
          self.modules_w_pins[i].orientation,
          get_fix_flag(self.modules_w_pins[i])>>]

\* The positions the text format represents exactly.
ExactlyWritten(self) ==
    \A i \in Placeable(self) :
        /\ float_of(format_g(self.modules_w_pins[i].x)) = self.modules_w_pins[i].x
        /\ float_of(format_g(self.modules_w_pins[i].y)) = self.modules_w_pins[i].y

\* C7: save_placement then restore_placement is the identity on (position,
\* orientation, fixed flag) of every port and macro whenever the text format
\* represents the positions exactly, and the file holds one data line per
\* placeable index, in ascending order, None written as '-'.  (Violated:
\* '{:g}' writes 1000000 as 1e+06, which the reader splits at the '+'.)
C7_SaveRestoreIdentity ==
    ExactlyWritten(plc) =>
        LET file == save_placement(plc, << <<>> >>)
            restored == restore_placement(plc, file)
            data == SelectSeq(file, LAMBDA line : line[1] # "#")
            indices == SortedInts(Placeable(plc))
        IN /\ restored.ret = Ok
           /\ PlacementOf(restored.plc) = PlacementOf(plc)
           /\ Len(data) = Len(indices)
           /\ \A k \in 1 .. Len(indices) :
                  LET line_item == findall(data[k], 1, <<>>)
                  IN /\ line_item[1] = str_int(indices[k])
                     /\ plc.modules_w_pins[indices[k]].orientation = "None"
                            => line_item[Len(line_item) - 1] = <<"-">>


\* C12: the fixed flag of every port is true.  (Violated: unfix_node_coord
\* accepts a port and clears its flag, and restore_placement clears it on a
\* record whose last field is 0.)
C12_PortsStayFixed ==
    \A p \in SeqSet(plc.port_indices) : get_fix_flag(plc.modules_w_pins[p])


\* ------------------------------------------------------------------ routing

\* Congestion values are fractions <<numerator, denominator>> in lowest
\* terms, the denominator positive.
RatAdd(a, b) == Rat(a[1] * b[2] + b[1] * a[2], a[2] * b[2])
RatSub(a, b) == Rat(a[1] * b[2] - b[1] * a[2], a[2] * b[2])
RatDiv(a, b) == Rat(a[1] * b[2], a[2] * b[1])
RatLeq(a, b) == a[1] * b[2] <= b[1] * a[2]

\* The routing steps pass on rt = [plc |-> engine, ret |-> outcome]: once a
\* step has raised, the steps after it do not run and the engine keeps what
\* was written before.

\* self.<attr>[idx] += amount on a Python list: a negative index counts
\* from the end of the list, an index outside -len .. len-1 raises
\* IndexError.
cong_add(rt, attr, idx, amount) ==
    LET n == PyLen(rt.plc[attr])
    IN IF rt.ret.kind # "ok" THEN rt
       ELSE IF idx >= n \/ idx < -n
       THEN [rt EXCEPT !.ret = Raise("IndexError")]
       ELSE [rt EXCEPT !.plc[attr][IF idx < 0 THEN idx + n ELSE idx] =
                           RatAdd(@, amount)]

\* for col in range(col, col_stop): H_routing_cong[row * grid_col + col] += weight
RECURSIVE route_H(_, _, _, _, _)
route_H(rt, row, col, col_stop, weight) ==
    IF col >= col_stop THEN rt
    ELSE route_H(cong_add(rt, "H_routing_cong",
                          row * rt.plc.grid_col + col, <<weight, 1>>),
                 row, col + 1, col_stop, weight)

\* for row in range(row, row_stop): V_routing_cong[row * grid_col + col] += weight
RECURSIVE route_V(_, _, _, _, _)
route_V(rt, col, row, row_stop, weight) ==
    IF row >= row_stop THEN rt
    ELSE route_V(cong_add(rt, "V_routing_cong",
                          row * rt.plc.grid_col + col, <<weight, 1>>),
                 col, row + 1, row_stop, weight)

\* __two_pin_net_routing with the horizontal pass on the sink's row.
two_pin_net_routing_sink_row(rt, source_gcell, node_gcells, weight) ==
    LET sink_gcell == CHOOSE g \in node_gcells : g # source_gcell
        row_min == Min(sink_gcell[1], source_gcell[1])
        row_max == Max(sink_gcell[1], source_gcell[1])
        col_min == Min(sink_gcell[2], source_gcell[2])
        col_max == Max(sink_gcell[2], source_gcell[2])
    IN route_V(route_H(rt, sink_gcell[1], col_min, col_max, weight),
               sink_gcell[2], row_min, row_max, weight)

\* A grid cell is <<row, col>>.
\* __two_pin_net_routing: node_gcells holds the source and one other cell.
two_pin_net_routing(rt, source_gcell, node_gcells, weight) ==
    LET sink_gcell == CHOOSE g \in node_gcells : g # source_gcell
        row_min == Min(sink_gcell[1], source_gcell[1])
        row_max == Max(sink_gcell[1], source_gcell[1])
        col_min == Min(sink_gcell[2], source_gcell[2])
        col_max == Max(sink_gcell[2], source_gcell[2])
    IN route_V(route_H(rt, source_gcell[1], col_min, col_max, weight),
               sink_gcell[2], row_min, row_max, weight)

\* list.sort(key = lambda x: (x[1], x[0])): by column, then by row.
RECURSIVE sort_by_col(_)
sort_by_col(gcells) ==
    IF gcells = {} THEN <<>>
    ELSE LET g == CHOOSE a \in gcells : \A b \in gcells :
                      a[2] < b[2] \/ (a[2] = b[2] /\ a[1] <= b[1])
         IN <<g>> \o sort_by_col(gcells \ {g})

\* list.sort(): by row, then by column.
RECURSIVE sort_by_row(_)
sort_by_row(gcells) ==
    IF gcells = {} THEN <<>>
    ELSE LET g == CHOOSE a \in gcells : \A b \in gcells :
                      a[1] < b[1] \/ (a[1] = b[1] /\ a[2] <= b[2])
         IN <<g>> \o sort_by_row(gcells \ {g})

\* __l_routing.
l_routing(rt, node_gcells, weight) ==
    LET s == sort_by_col(node_gcells)
        y1 == s[1][1]  x1 == s[1][2]
        y2 == s[2][1]  x2 == s[2][2]
        y3 == s[3][1]  x3 == s[3][2]
    IN route_V(
         route_V(
           route_H(route_H(rt, y1, x1, x2, weight), y2, x2, x3, weight),
           x2, Min(y1, y2), Max(y1, y2), weight),
         x3, Min(y2, y3), Max(y2, y3), weight)

\* __t_routing with the cells sorted by column.
t_routing_by_col(rt, node_gcells, weight) ==
    LET s == sort_by_col(node_gcells)
        y1 == s[1][1]  x1 == s[1][2]
        y2 == s[2][1]  x2 == s[2][2]
        y3 == s[3][1]  x3 == s[3][2]
        xmin == Min(x1, Min(x2, x3))
        xmax == Max(x1, Max(x2, x3))
    IN route_V(
         route_V(route_H(rt, y2, xmin, xmax, weight),
                 x1, Min(y1, y2), Max(y1, y2), weight),
         x3, Min(y2, y3), Max(y2, y3), weight)

\* __t_routing.
t_routing(rt, node_gcells, weight) ==
    LET s == sort_by_row(node_gcells)
        y1 == s[1][1]  x1 == s[1][2]
        y2 == s[2][1]  x2 == s[2][2]
        y3 == s[3][1]  x3 == s[3][2]
        xmin == Min(x1, Min(x2, x3))
        xmax == Max(x1, Max(x2, x3))
    IN route_V(
         route_V(route_H(rt, y2, xmin, xmax, weight),
                 x1, Min(y1, y2), Max(y1, y2), weight),
         x3, Min(y2, y3), Max(y2, y3), weight)

\* __three_pin_net_routing.
three_pin_net_routing(rt, node_gcells, weight) ==
    LET s == sort_by_col(node_gcells)
        y1 == s[1][1]  x1 == s[1][2]
        y2 == s[2][1]  x2 == s[2][2]
        y3 == s[3][1]  x3 == s[3][2]
    IN IF x1 < x2 /\ x2 < x3 /\ Min(y1, y3) < y2 /\ Max(y1, y3) > y2
       THEN l_routing(rt, node_gcells, weight)
       ELSE IF x2 = x3 /\ x1 < x2 /\ y1 < Min(y2, y3)
       THEN route_V(route_H(rt, y1, x1, x2, weight),
                    x2, y1, Max(y2, y3), weight)
       ELSE IF y2 = y3
       THEN route_V(
              route_H(route_H(rt, y1, x1, x2, weight), y2, x2, x3, weight),
              x2, Min(y2, y1), Max(y2, y1), weight)
       ELSE t_routing(rt, node_gcells, weight)

\* __split_net and the loop over it: one two-pin net from the source to
\* every other cell.  (The code visits the cells in the iteration order of
\* a set; the sums do not depend on it.)
RECURSIVE split_net_routing(_, _, _, _)
split_net_routing(rt, source_gcell, gcells, weight) ==
    IF gcells = <<>> THEN rt
    ELSE split_net_routing(
             IF Head(gcells) # source_gcell
             THEN two_pin_net_routing(rt, source_gcell,
                                      {source_gcell, Head(gcells)}, weight)
             ELSE rt,
             source_gcell, Tail(gcells), weight)

\* The dispatch of get_routing on len(node_gcells).
net_routing(rt, source_gcell, node_gcells, weight) ==
    CASE Cardinality(node_gcells) = 2 ->
             two_pin_net_routing(rt, source_gcell, node_gcells, weight)
      [] Cardinality(node_gcells) = 3 ->
             three_pin_net_routing(rt, node_gcells, weight)
      [] Cardinality(node_gcells) > 3 ->
             split_net_routing(rt, source_gcell, sort_by_row(node_gcells), weight)
      [] OTHER -> rt


\* __overlap_dist.
overlap_dist(block_i, block_j) ==
    LET x_diff == Min(block_i.x_max, block_j.x_max) - Max(block_i.x_min, block_j.x_min)
        y_diff == Min(block_i.y_max, block_j.y_max) - Max(block_i.y_min, block_j.y_min)
    IN IF x_diff > 0 /\ y_diff > 0 THEN <<x_diff, y_diff>> ELSE <<0, 0>>

\* __macro_route_over_grid_cell.  Lengths count half-microns, so the
\* product of a length and an allocation is halved.
macro_route_over_grid_cell(self, mod_x, mod_y, mod_w, mod_h) ==
    LET module_block == Block(mod_x + mod_w \div 2, mod_y + mod_h \div 2,
                              mod_x - mod_w \div 2, mod_y - mod_h \div 2)
        ur == get_grid_cell_location(self, module_block.x_max, module_block.y_max)
        bl == get_grid_cell_location(self, module_block.x_min, module_block.y_min)
        bl_row == Max(bl[1], 0)
        bl_col == Max(bl[2], 0)
        ur_row == Min(ur[1], self.grid_row - 1)
        ur_col == Min(ur[2], self.grid_col - 1)
        dist(r_i, c_i) ==
            overlap_dist(module_block,
                         Block((c_i + 1) * grid_width(self),
                               (r_i + 1) * grid_height(self),
                               c_i * grid_width(self),
                               r_i * grid_height(self)))
        if_PARTIAL_OVERLAP_VERTICAL ==
            /\ ur_row # bl_row
            /\ \E r_i \in {bl_row, ur_row} \cap (bl_row .. ur_row),
                  c_i \in bl_col .. ur_col :
                   dist(r_i, c_i)[2] # grid_height(self)
        if_PARTIAL_OVERLAP_HORIZONTAL ==
            /\ ur_col # bl_col
            /\ \E r_i \in bl_row .. ur_row,
                  c_i \in {bl_col, ur_col} \cap (bl_col .. ur_col) :
                   dist(r_i, c_i)[1] # grid_width(self)
        covered(cell) ==
            /\ cell \div self.grid_col \in bl_row .. ur_row
            /\ cell % self.grid_col \in bl_col .. ur_col
        x_dist(cell) == dist(cell \div self.grid_col, cell % self.grid_col)[1]
        y_dist(cell) == dist(cell \div self.grid_col, cell % self.grid_col)[2]
    IN IF ur[1] >= 0 /\ ur[2] >= 0
       THEN [self EXCEPT
               !.V_macro_routing_cong =
                   [cell \in DOMAIN @ |->
                      IF ~ covered(cell) THEN @[cell]
                      ELSE IF if_PARTIAL_OVERLAP_VERTICAL
                              /\ cell \div self.grid_col = ur_row
                      THEN RatSub(RatAdd(@[cell],
                                         Rat(x_dist(cell) * self.vrouting_alloc, 2)),
                                  Rat(x_dist(cell) * self.vrouting_alloc, 2))
                      ELSE RatAdd(@[cell],
                                  Rat(x_dist(cell) * self.vrouting_alloc, 2))],
               !.H_macro_routing_cong =
                   [cell \in DOMAIN @ |->
                      IF ~ covered(cell) THEN @[cell]
                      ELSE IF if_PARTIAL_OVERLAP_HORIZONTAL
                              /\ cell % self.grid_col = ur_col
                      THEN RatSub(RatAdd(@[cell],
                                         Rat(y_dist(cell) * self.hrouting_alloc, 2)),
                                  Rat(y_dist(cell) * self.hrouting_alloc, 2))
                      ELSE RatAdd(@[cell],
                                  Rat(y_dist(cell) * self.hrouting_alloc, 2))]]
       ELSE self

\* The grid cells of the net a module drives, source first in the pair
\* <<source_gcell, node_gcells>>; no net gives <<<<>>, {}>>.
net_gcells(self, mod_idx) ==
    LET mod == self.modules_w_pins[mod_idx]
        curr_type == get_type(mod)
        sinks == UNION {SeqSet(mod.sink[k]) : k \in DOMAIN mod.sink}
        sink_gcells ==
            {LET pos == get_pin_position(self, self.mod_name_to_indices[n])
             IN get_grid_cell_location(self, pos[1], pos[2]) : n \in sinks}
        pin_pos == get_pin_position(self, mod_idx)
    IN CASE curr_type = "PORT" /\ mod.sink # <<>> ->
               <<get_grid_cell_location(self, mod.x, mod.y),
                 {get_grid_cell_location(self, mod.x, mod.y)} \cup sink_gcells>>
         [] curr_type = "MACRO_PIN" /\ mod.sink # <<>> ->
               <<get_grid_cell_location(self, pin_pos[1], pin_pos[2]),
                 {get_grid_cell_location(self, pin_pos[1], pin_pos[2])}
                     \cup sink_gcells>>
         [] OTHER -> << <<>>, {} >>

\* The weight get_routing gives the net of a module.
net_weight(mod) ==
    IF get_type(mod) = "MACRO_PIN" /\ mod.weight > 1 THEN mod.weight ELSE 1

\* One pass of the loop `for mod in self.modules_w_pins` of get_routing.
route_module(rt, mod_idx) ==
    LET self == rt.plc
        mod == self.modules_w_pins[mod_idx]
        net == net_gcells(self, mod_idx)
    IN IF rt.ret.kind # "ok" THEN rt
       ELSE IF net[2] # {}
       THEN net_routing(rt, net[1], net[2], net_weight(mod))
       ELSE IF get_type(mod) = "MACRO" /\ is_node_hard_macro(self, mod_idx)
       THEN [rt EXCEPT !.plc = macro_route_over_grid_cell(
                                   self, mod.x, mod.y,
                                   get_width(mod), get_height(mod))]
       ELSE rt

RECURSIVE route_modules(_, _)
route_modules(rt, mod_idx) ==
    IF mod_idx >= PyLen(rt.plc.modules_w_pins) THEN rt
    ELSE route_modules(route_module(rt, mod_idx), mod_idx + 1)


RECURSIVE SumRats(_)
SumRats(s) == IF s = <<>> THEN <<0, 1>> ELSE RatAdd(Head(s), SumRats(Tail(s)))

\* max(0, i - smooth_range) and min(n - 1, i + smooth_range).
smooth_lo(self, i) == Max(i - self.smooth_range, 0)
smooth_hi(self, i, n) == Min(i + self.smooth_range, n - 1)

\* __smooth_routing_cong: every entry of V_routing_cong is spread evenly
\* over the columns within smooth_range of it, every entry of
\* H_routing_cong over the rows within smooth_range of it.
smooth_routing_cong(self) ==
    LET cols == self.grid_col
        rows == self.grid_row
        v_share(row, col, ptr) ==
            IF ptr \in smooth_lo(self, col) .. smooth_hi(self, col, cols)
            THEN RatDiv(self.V_routing_cong[row * cols + col],
                        <<smooth_hi(self, col, cols) - smooth_lo(self, col) + 1, 1>>)
            ELSE <<0, 1>>
        h_share(row, col, ptr) ==
            IF ptr \in smooth_lo(self, row) .. smooth_hi(self, row, rows)
            THEN RatDiv(self.H_routing_cong[row * cols + col],
                        <<smooth_hi(self, row, rows) - smooth_lo(self, row) + 1, 1>>)
            ELSE <<0, 1>>
    IN [self EXCEPT
          !.V_routing_cong =
              [cell \in 0 .. cols * rows - 1 |->
                 SumRats([k \in 1 .. cols |->
                            v_share(cell \div cols, k - 1, cell % cols)])],
          !.H_routing_cong =
              [cell \in 0 .. cols * rows - 1 |->
                 SumRats([k \in 1 .. rows |->
                            h_share(k - 1, cell % cols, cell \div cols)])]]

\* The four normalising loops of get_routing.  Dividing by a zero
\* grid_v_routes or grid_h_routes raises on the first entry of the list,
\* the lists before it are already divided.
normalize_routing(rt) ==
    LET self == rt.plc
        over(l, routes) == [i \in DOMAIN l |-> RatDiv(l[i], routes)]
    IN IF rt.ret.kind # "ok" THEN rt
       ELSE IF PyLen(self.V_routing_cong) = 0 THEN rt
       ELSE IF self.grid_v_routes[1] = 0
       THEN [rt EXCEPT !.ret = Raise("ZeroDivisionError")]
       ELSE IF self.grid_h_routes[1] = 0
       THEN [plc |-> [self EXCEPT !.V_routing_cong =
                                      over(@, self.grid_v_routes)],
             ret |-> Raise("ZeroDivisionError")]
       ELSE [rt EXCEPT
               !.plc.V_routing_cong = over(@, self.grid_v_routes),
               !.plc.H_routing_cong = over(@, self.grid_h_routes),
               !.plc.V_macro_routing_cong = over(@, self.grid_v_routes),
               !.plc.H_macro_routing_cong = over(@, self.grid_h_routes)]

\* The head of get_routing: with FLAG_UPDATE_CONGESTION set, the routes per
\* cell are recomputed and the four grids are reset.  grid_width counts
\* half-microns, hence the 2.
reset_routing(self) ==
    IF self.FLAG_UPDATE_CONGESTION
    THEN [f \in DOMAIN self \cup {"grid_v_routes", "grid_h_routes"} |->
            CASE f = "grid_v_routes" ->
                     Rat(grid_width(self) * self.vroutes_per_micron, 2)
              [] f = "grid_h_routes" ->
                     Rat(grid_height(self) * self.hroutes_per_micron, 2)
              [] f \in {"H_routing_cong", "V_routing_cong",
                        "H_macro_routing_cong", "V_macro_routing_cong"} ->
                     PyList(self.grid_row * self.grid_col, <<0, 1>>)
              [] f = "FLAG_UPDATE_CONGESTION" -> FALSE
              [] OTHER -> self[f]]
    ELSE self

\* The last two statements of get_routing.
sum_routing(self) ==
    [self EXCEPT
       !.V_routing_cong =
           [i \in DOMAIN @ |-> RatAdd(@[i], self.V_macro_routing_cong[i])],
       !.H_routing_cong =
           [i \in DOMAIN @ |-> RatAdd(@[i], self.H_macro_routing_cong[i])]]

\* The net-routing step of get_routing: the reset and the loop over the
\* modules, before normalisation and smoothing.
routed(self) == route_modules([plc |-> reset_routing(self), ret |-> Ok], 0)

\* get_routing: the engine it leaves and how it ends.
get_routing(self) ==
    LET rt == normalize_routing(routed(self))
    IN IF rt.ret.kind # "ok" THEN rt
       ELSE [rt EXCEPT !.plc = sum_routing(smooth_routing_cong(rt.plc))]

\* set_routes_per_micron, set_congestion_smooth_range (math.floor of an
\* integer), set_macro_routing_allocation.
set_routes_per_micron(self, hroutes_per_micron, vroutes_per_micron) ==
    [self EXCEPT !.FLAG_UPDATE_CONGESTION = TRUE,
                 !.hroutes_per_micron = hroutes_per_micron,
                 !.vroutes_per_micron = vroutes_per_micron]

set_congestion_smooth_range(self, smooth_range) ==
    [self EXCEPT !.FLAG_UPDATE_CONGESTION = TRUE,
                 !.smooth_range = smooth_range]

set_macro_routing_allocation(self, hrouting_alloc, vrouting_alloc) ==
    [self EXCEPT !.FLAG_UPDATE_CONGESTION = TRUE,
                 !.hrouting_alloc = hrouting_alloc,
                 !.vrouting_alloc = vrouting_alloc]


\* --------------------------------------------------- the routing interface

\* A port driving three ports, each at a position of its own.
NetlistPorts(p0, p1, p2, p3) ==
    << [name |-> <<"P0">>, type |-> "PORT", x |-> p0[1], y |-> p0[2],
        side |-> "LEFT", input |-> << <<"P1">>, <<"P2">>, <<"P3">> >>],
       [name |-> <<"P1">>, type |-> "PORT", x |-> p1[1], y |-> p1[2],
        side |-> "LEFT", input |-> <<>>],
       [name |-> <<"P2">>, type |-> "PORT", x |-> p2[1], y |-> p2[2],
        side |-> "LEFT", input |-> <<>>],
       [name |-> <<"P3">>, type |-> "PORT", x |-> p3[1], y |-> p3[2],
        side |-> "LEFT", input |-> <<>>] >>

\* A canvas of 3 x 3 cells of one micron.
RouteCanvas == <<6, 6>>
RouteGrid == <<3, 3>>

\* The positions of the ports: the centres of the nine cells, and three
\* points off the canvas (left of it, right of it, above it).
RoutePositions ==
    ({1, 3, 5} \X {1, 3, 5}) \cup {<<-1, 1>>, <<7, 1>>, <<1, 7>>}

\* get_routing is called at most MaxRouted times in a row.
MaxRouted == 2

SmoothInputs == {0, 1}

\* The engine on a netlist, configured by its caller.
Configured(netlist) ==
    set_macro_routing_allocation(
        set_congestion_smooth_range(
            set_routes_per_micron(
                PlacementCost(netlist, RouteCanvas, RouteGrid), 1, 1),
            0),
        1, 1)

\* The order of two positions: routing reads the sinks of a net as a set
\* of cells, so the netlists list the sinks in this order only.
PosLeq(p, q) == p[1] < q[1] \/ (p[1] = q[1] /\ p[2] <= q[2])

InitRoute ==
    /\ \/ \E p0 \in RoutePositions, p1 \in RoutePositions,
             p2 \in RoutePositions, p3 \in RoutePositions :
              /\ PosLeq(p1, p2) /\ PosLeq(p2, p3)
              /\ plc = Configured(NetlistPorts(p0, p1, p2, p3))
       \/ plc = Configured(NetlistStd)
    /\ call = [op |-> "init"]
    /\ ret = Ok
    /\ plc_file = <<>>

GetRouting ==
    LET n == IF call.op = "get_routing" THEN call.n ELSE 0
    IN /\ Alive
       /\ n < MaxRouted
       /\ plc' = get_routing(plc).plc
       /\ call' = [op |-> "get_routing", n |-> n + 1]
       /\ ret' = get_routing(plc).ret
       /\ UNCHANGED plc_file

SetCongestionSmoothRange ==
    \E smooth_range \in SmoothInputs :
        /\ Alive
        /\ plc' = set_congestion_smooth_range(plc, smooth_range)
        /\ call' = [op |-> "set_congestion_smooth_range"]
        /\ ret' = Ok
        /\ UNCHANGED plc_file

NextRoute ==
    \/ GetRouting
    \/ SetCongestionSmoothRange

SpecRoute == InitRoute /\ [][NextRoute]_vars

\* ---------------------------------------------------- properties of routing

\* The modules that drive a net.
Drivers(self) ==
    {m \in DOMAIN self.modules_w_pins : net_gcells(self, m)[2] # {}}

\* The names of the sinks of a driver.
SinkNames(self, mod_idx) ==
    LET mod == self.modules_w_pins[mod_idx]
    IN UNION {SeqSet(mod.sink[k]) : k \in DOMAIN mod.sink}

\* The grid cell of a port or pin.
GcellOf(self, idx) ==
    LET pos == get_pin_position(self, idx)
    IN get_grid_cell_location(self, pos[1], pos[2])

\* The cells of the net of a driver restricted to some of its sinks.
NetCells(self, mod_idx, names) ==
    {GcellOf(self, mod_idx)}
        \cup {GcellOf(self, self.mod_name_to_indices[n]) : n \in names}

OnGrid(self, gcell) ==
    /\ gcell[1] \in 0 .. self.grid_row - 1
    /\ gcell[2] \in 0 .. self.grid_col - 1

\* The net-routing step on that net alone, from empty grids.
RoutedNet(self, mod_idx, names) ==
    net_routing([plc |-> reset_routing([self EXCEPT !.FLAG_UPDATE_CONGESTION = TRUE]),
                 ret |-> Ok],
                GcellOf(self, mod_idx), NetCells(self, mod_idx, names),
                net_weight(self.modules_w_pins[mod_idx]))

\* C13: whenever get_routing has run, for every net on the grid the
\* net-routing step with one more sink
\* gives every entry of H_routing_cong and V_routing_cong at least the
\* demand it has without that sink.  (Violated: a three-cell net is routed
\* by a pattern that leaves cells of the two-cell route unused.)
C13_SinkMonotone ==
    call.op = "get_routing" =>
    \A d \in Drivers(plc) :
        \A names \in SUBSET SinkNames(plc, d), n \in SinkNames(plc, d) :
            (/\ names # {}
             /\ n \notin names
             /\ \A g \in NetCells(plc, d, names \cup {n}) : OnGrid(plc, g))
            => LET less == RoutedNet(plc, d, names).plc
                   more == RoutedNet(plc, d, names \cup {n}).plc
               IN \A i \in DOMAIN less.H_routing_cong :
                      /\ RatLeq(less.H_routing_cong[i], more.H_routing_cong[i])
                      /\ RatLeq(less.V_routing_cong[i], more.V_routing_cong[i])

\* C15: a net with a cell off the grid does not make get_routing raise and
\* adds nothing to H_routing_cong or V_routing_cong.  (Violated: the cells
\* are used as list indices unchecked; an index past the end raises
\* IndexError, any other lands in another row or column.)
C15_OffGridNetIgnored ==
    call.op = "get_routing" =>
    /\ ret.kind = "ok"
    /\ \A d \in Drivers(plc) :
           (\E g \in net_gcells(plc, d)[2] : ~ OnGrid(plc, g))
           => LET alone == RoutedNet(plc, d, SinkNames(plc, d))
              IN /\ alone.ret.kind = "ok"
                 /\ \A i \in DOMAIN alone.plc.H_routing_cong :
                        /\ alone.plc.H_routing_cong[i] = <<0, 1>>
                        /\ alone.plc.V_routing_cong[i] = <<0, 1>>


\* -------------------------------------------------- force-directed placement

\* Forces and displacements are fractions.  A position is a whole number of
\* half-microns, so a displacement in microns is doubled before it is added.
RatMul(a, b) == Rat(a[1] * b[1], a[2] * b[2])
RatNeg(a) == <<-a[1], a[2]>>
RatAbs(a) == <<Abs(a[1]), a[2]>>
RatMax(a, b) == IF RatLeq(a, b) THEN b ELSE a

\* The largest r in lo .. hi with r * r <= n.
RECURSIVE isqrt(_, _, _)
isqrt(n, lo, hi) ==
    IF lo >= hi THEN lo
    ELSE LET mid == (lo + hi + 1) \div 2
         IN IF mid * mid <= n THEN isqrt(n, mid, hi) ELSE isqrt(n, lo, mid - 1)

\* math.sqrt is exact on the squares of fractions and rounded down to a
\* thousandth elsewhere; the rounded values only ever meet as the ratios
\* force / largest force.
SqrtScale == 1000

sqrt(q) ==
    Rat(isqrt(q[1] * q[2] * SqrtScale * SqrtScale, 0,
              (q[1] + 1) * q[2] * SqrtScale),
        q[2] * SqrtScale)

\* math.sqrt(x_dist**2 + y_dist**2).
hypot(x_dist, y_dist) ==
    sqrt(RatAdd(RatMul(x_dist, x_dist), RatMul(y_dist, y_dist)))

\* The comparison __ifOverlap ends with, on squares of the sides u_side and
\* v_side centred at (u_x, u_y) and (v_x, v_y); the centres are fractions.
squares_overlap(u_side, u_x, u_y, v_side, v_x, v_y) ==
    /\ ~ RatLeq(RatAdd(v_x, <<v_side, 2>>), RatSub(u_x, <<u_side, 2>>))
    /\ ~ RatLeq(RatAdd(u_x, <<u_side, 2>>), RatSub(v_x, <<v_side, 2>>))
    /\ ~ RatLeq(RatAdd(u_y, <<u_side, 2>>), RatSub(v_y, <<v_side, 2>>))
    /\ ~ RatLeq(RatAdd(v_y, <<v_side, 2>>), RatSub(u_y, <<u_side, 2>>))

\* __ifOverlap: both modules are taken as squares of the side get_height();
\* ux, uy, vx, vy are fractions.
ifOverlap(self, u_i, v_i, ux, uy, vx, vy) ==
    squares_overlap(get_height(self.modules_w_pins[u_i]),
                    RatAdd(<<self.modules_w_pins[u_i].x, 1>>, ux),
                    RatAdd(<<self.modules_w_pins[u_i].y, 1>>, uy),
                    get_height(self.modules_w_pins[v_i]),
                    RatAdd(<<self.modules_w_pins[v_i].x, 1>>, vx),
                    RatAdd(<<self.modules_w_pins[v_i].y, 1>>, vy))

\* x_dist / hypo_dist * f and y_dist / hypo_dist * f.
along(x_dist, y_dist, hypo_dist, f) ==
    <<RatMul(RatDiv(x_dist, hypo_dist), f), RatMul(RatDiv(y_dist, hypo_dist), f)>>

\* repel_factor * x_dist / hypo_dist and repel_factor * y_dist / hypo_dist.
repel_along(x_dist, y_dist, hypo_dist, repel_factor) ==
    <<RatDiv(RatMul(<<repel_factor, 1>>, x_dist), hypo_dist),
      RatDiv(RatMul(<<repel_factor, 1>>, y_dist), hypo_dist)>>

\* __repulsive_force: <<f_x, f_y>>.
repulsive_force(self, repel_factor, node_i, node_j) ==
    IF repel_factor = 0 THEN << <<0, 1>>, <<0, 1>> >>
    ELSE IF /\ self.modules_w_pins[node_i].x = self.modules_w_pins[node_j].x
            /\ self.modules_w_pins[node_i].y = self.modules_w_pins[node_j].y
    THEN <<sqrt(<<repel_factor, 1>>), sqrt(<<repel_factor, 1>>)>>
    ELSE repel_along(
             <<self.modules_w_pins[node_i].x - self.modules_w_pins[node_j].x, 1>>,
             <<self.modules_w_pins[node_i].y - self.modules_w_pins[node_j].y, 1>>,
             hypot(<<self.modules_w_pins[node_i].x - self.modules_w_pins[node_j].x, 1>>,
                   <<self.modules_w_pins[node_i].y - self.modules_w_pins[node_j].y, 1>>),
             repel_factor)

\* __repulsive_force_hard_macro divides by hypo_dist when the two centres
\* coincide: ZeroDivisionError.
repulsive_force_hard_macro_raises(self, repel_factor, h_node_i, s_node_j) ==
    /\ repel_factor # 0
    /\ self.modules_w_pins[h_node_i].x = self.modules_w_pins[s_node_j].x
    /\ self.modules_w_pins[h_node_i].y = self.modules_w_pins[s_node_j].y

\* __repulsive_force_hard_macro: <<f_x, f_y>>, the centres apart.
repulsive_force_hard_macro(self, repel_factor, h_node_i, s_node_j) ==
    IF repel_factor = 0 THEN << <<0, 1>>, <<0, 1>> >>
    ELSE IF ifOverlap(self, h_node_i, s_node_j,
                      <<0, 1>>, <<0, 1>>, <<0, 1>>, <<0, 1>>)
    THEN along(
             <<self.modules_w_pins[h_node_i].x - self.modules_w_pins[s_node_j].x, 1>>,
             <<self.modules_w_pins[h_node_i].y - self.modules_w_pins[s_node_j].y, 1>>,
             hypot(<<self.modules_w_pins[h_node_i].x - self.modules_w_pins[s_node_j].x, 1>>,
                   <<self.modules_w_pins[h_node_i].y - self.modules_w_pins[s_node_j].y, 1>>),
             <<get_height(self.modules_w_pins[h_node_i])
                   + get_height(self.modules_w_pins[s_node_j]), 2>>)
    ELSE << <<0, 1>>, <<0, 1>> >>

\* The distance __attractive_force works with on one axis: the centres'
\* distance less half of each height.
attract_dist(pos_i, pos_j, mod_i, mod_j) ==
    <<2 * (pos_i - pos_j) - get_height(mod_i) - get_height(mod_j), 2>>

\* The force of __attractive_force where it is not zero: temp_f is the factor
\* times hypo_dist ** attract_exponent, attract_exponent being 1.
attract_along(x_dist, y_dist, hypo_dist, factor) ==
    along(x_dist, y_dist, hypo_dist, RatMul(<<factor, 1>>, hypo_dist))

\* __attractive_force: <<f_x, f_y>>.
attractive_force(self, io_factor, attract_factor, node_i, node_j, io_flag) ==
    IF \/ /\ attract_dist(self.modules_w_pins[node_i].x, self.modules_w_pins[node_j].x,
                          self.modules_w_pins[node_i], self.modules_w_pins[node_j])[1] = 0
          /\ attract_dist(self.modules_w_pins[node_i].y, self.modules_w_pins[node_j].y,
                          self.modules_w_pins[node_i], self.modules_w_pins[node_j])[1] = 0
       \/ ifOverlap(self, node_i, node_j, <<0, 1>>, <<0, 1>>, <<0, 1>>, <<0, 1>>)
    THEN << <<0, 1>>, <<0, 1>> >>
    ELSE attract_along(
             attract_dist(self.modules_w_pins[node_i].x, self.modules_w_pins[node_j].x,
                          self.modules_w_pins[node_i], self.modules_w_pins[node_j]),
             attract_dist(self.modules_w_pins[node_i].y, self.modules_w_pins[node_j].y,
                          self.modules_w_pins[node_i], self.modules_w_pins[node_j]),
             hypot(attract_dist(self.modules_w_pins[node_i].x,
                                self.modules_w_pins[node_j].x,
                                self.modules_w_pins[node_i], self.modules_w_pins[node_j]),
                   attract_dist(self.modules_w_pins[node_i].y,
                                self.modules_w_pins[node_j].y,
                                self.modules_w_pins[node_i], self.modules_w_pins[node_j])),
             IF io_flag THEN io_factor ELSE attract_factor)

\* __boundary_check left out: the module stays where update_location put it.
boundary_check_off(self, mod_id) == self

\* __boundary_check.
boundary_check(self, mod_id) ==
    [self EXCEPT
       !.modules_w_pins[mod_id].x = Min(Max(@, 0), self.width),
       !.modules_w_pins[mod_id].y = Min(Max(@, 0), self.height)]


Axes == {1, 2}

\* The soft-soft pass of __fd_placement calls __repulsive_force once for every
\* pair of soft macros with mod_i > mod_j.
soft_forces(self, repel_factor) ==
    [p \in {q \in SeqSet(self.soft_macro_indices) \X SeqSet(self.soft_macro_indices) :
               q[1] > q[2]} |->
        repulsive_force(self, repel_factor, p[1], p[2])]

\* What the pairs add to xr_collection[m] (axis 1) or yr_collection[m]
\* (axis 2), others being the soft macros still to visit.
RECURSIVE soft_repel(_, _, _, _)
soft_repel(forces, m, others, axis) ==
    IF others = <<>> THEN <<0, 1>>
    ELSE LET o == Head(others)
             term == IF m > o THEN forces[<<m, o>>][axis]
                     ELSE IF o > m THEN RatNeg(forces[<<o, m>>][axis])
                     ELSE <<0, 1>>
         IN RatAdd(term, soft_repel(forces, m, Tail(others), axis))

\* The soft-hard pass calls __repulsive_force_hard_macro once for every soft
\* macro and hard macro.
hard_forces(self, repel_factor) ==
    [p \in SeqSet(self.soft_macro_indices) \X SeqSet(self.hard_macro_indices) |->
        repulsive_force_hard_macro(self, repel_factor, p[1], p[2])]

\* What the hard macros add to the collections at m.
RECURSIVE hard_repel(_, _, _, _)
hard_repel(forces, m, hards, axis) ==
    IF hards = <<>> THEN <<0, 1>>
    ELSE RatAdd(forces[<<m, Head(hards)>>][axis],
                hard_repel(forces, m, Tail(hards), axis))

\* max_x_disp / max_y_disp: the largest magnitude in a collection, 1.0 when
\* every entry is zero.  Only soft macros have entries other than zero.
RECURSIVE largest(_, _)
largest(collection, indices) ==
    IF indices = <<>> THEN <<0, 1>>
    ELSE RatMax(RatAbs(collection[Head(indices)]),
                largest(collection, Tail(indices)))

\* if max_x_disp == 0.0: max_x_disp = 1.0.
or_one(m) == IF m[1] = 0 THEN <<1, 1>> ELSE m

max_disp(collection, indices) == or_one(largest(collection, indices))

\* scaling * collection[m] / max_disp for every soft macro m.
over(collection, scaling, top) ==
    [m \in DOMAIN collection |-> RatDiv(RatMul(scaling, collection[m]), top)]

scaled(self, collection, scaling) ==
    over(collection, scaling, max_disp(collection, self.soft_macro_indices))

\* The displacements in microns of the soft-soft pass, scaling = 2.0.
soft_soft_disp(self, forces, axis) ==
    scaled(self,
           [m \in SeqSet(self.soft_macro_indices) |->
               soft_repel(forces, m, self.soft_macro_indices, axis)],
           <<2, 1>>)

\* The displacements in microns of the soft-hard pass, scaling = 4.0.
soft_hard_disp(self, forces, axis) ==
    scaled(self,
           [m \in SeqSet(self.soft_macro_indices) |->
               hard_repel(forces, m, self.hard_macro_indices, axis)],
           <<4, 1>>)

\* The attraction pass visits every <<driver_pin_idx, sink_pin_name>> of a
\* soft macro pin with sinks.
attract_pairs(self) ==
    UNION { {<<p, n>> : n \in DOMAIN self.modules_w_pins[p].sink} :
            p \in SeqSet(self.soft_macro_pin_indices) }

\* The pairs that are not skipped for an overlap, before or after the pull f.
not_skipped(self, d, k, f) ==
    /\ ~ ifOverlap(self, d, k, <<0, 1>>, <<0, 1>>, <<0, 1>>, <<0, 1>>)
    /\ ~ ifOverlap(self, d, k, f[1], f[2], <<0, 1>>, <<0, 1>>)

attracted(self, io_factor, attract_factor, p, n) ==
    not_skipped(self, get_ref_node_id(self, p), self.mod_name_to_indices[<<n>>],
                attractive_force(self, io_factor, attract_factor,
                                 get_ref_node_id(self, p),
                                 self.mod_name_to_indices[<<n>>], TRUE))

\* The arguments piecewise_sigmoid is called with for axis, as
\* <<driver_mod_idx, driver_pin_idx, sink_pin_name, argument>>.
attract_terms(self, io_factor, attract_factor, axis) ==
    { <<get_ref_node_id(self, t[1]), t[1], t[2],
        RatNeg(attractive_force(self, io_factor, attract_factor,
                                get_ref_node_id(self, t[1]),
                                self.mod_name_to_indices[<<t[2]>>], TRUE)[axis])>> :
      t \in {u \in attract_pairs(self) :
                attracted(self, io_factor, attract_factor, u[1], u[2])} }

\* piecewise_sigmoid(x) is a positive number for x >= 0 and a negative one for
\* x < 0, never zero.  collection[m] / max_disp is then +1 or -1 where the
\* terms all belong to m and are of one sign, and 0 where m has no term; the
\* quotient of two different sums of exponentials is left without a value.
attract_share(terms, m) ==
    IF \A t \in terms : t[1] # m THEN <<0, 1>>
    ELSE IF \A t \in terms : t[1] = m /\ t[4][1] >= 0 THEN <<1, 1>>
    ELSE IF \A t \in terms : t[1] = m /\ t[4][1] < 0 THEN <<-1, 1>>
    ELSE CHOOSE q \in {} : TRUE

\* The displacements in microns of the attraction pass, scaling = 0.1.
shares(self, terms) ==
    [m \in SeqSet(self.soft_macro_indices) |->
        RatMul(<<1, 10>>, attract_share(terms, m))]

attract_disp(self, io_factor, attract_factor, axis) ==
    shares(self, attract_terms(self, io_factor, attract_factor, axis))

\* add_displace: the three passes' displacements summed.
add_displace(push, away, pull) ==
    [m \in DOMAIN push |-> RatAdd(RatAdd(push[m], away[m]), pull[m])]

no_disp(self) == [m \in SeqSet(self.soft_macro_indices) |-> <<0, 1>>]

\* soft_macro_disp[m][axis] in microns after the three passes, for every
\* soft macro m; soft and hard are the forces of the two repulsion passes.
soft_macro_disp(self, soft, hard, io_factor, attract_factor, repel_factor, axis) ==
    add_displace(
        IF repel_factor # 0 THEN soft_soft_disp(self, soft, axis) ELSE no_disp(self),
        IF repel_factor # 0 THEN soft_hard_disp(self, hard, axis) ELSE no_disp(self),
        IF attract_factor # 0
        THEN attract_disp(self, io_factor, attract_factor, axis) ELSE no_disp(self))

\* A displacement in microns as a whole number of half-microns.
half_microns(q) == CHOOSE k \in {(2 * q[1]) \div q[2]} : k * q[2] = 2 * q[1]

\* update_location for every soft macro: x_pos + x_disp, y_pos + y_disp.
update_location(self, x_disp, y_disp) ==
    [self EXCEPT !.modules_w_pins =
        [i \in DOMAIN @ |->
            IF i \in SeqSet(self.soft_macro_indices)
            THEN [@[i] EXCEPT !.x = @ + half_microns(x_disp[i]),
                              !.y = @ + half_microns(y_disp[i])]
            ELSE @[i]]]

\* The passes of one iteration with the forces of the repulsion passes given.
displaced(self, soft, hard, io_factor, attract_factor, repel_factor) ==
    update_location(self,
        soft_macro_disp(self, soft, hard, io_factor, attract_factor, repel_factor, 1),
        soft_macro_disp(self, soft, hard, io_factor, attract_factor, repel_factor, 2))

\* The displacements are computed from the positions __fd_placement was
\* entered with, and then applied.
update_locations(self, io_factor, attract_factor, repel_factor) ==
    displaced(self,
              IF repel_factor # 0 THEN soft_forces(self, repel_factor) ELSE <<>>,
              IF repel_factor # 0 THEN hard_forces(self, repel_factor) ELSE <<>>,
              io_factor, attract_factor, repel_factor)

RECURSIVE boundary_checks(_, _)
boundary_checks(self, indices) ==
    IF indices = <<>> THEN self
    ELSE boundary_checks(boundary_check(self, Head(indices)), Tail(indices))

\* __fd_placement raises where a soft macro sits on the centre of a hard one.
fd_placement_raises(self, repel_factor) ==
    \E m \in SeqSet(self.soft_macro_indices), h \in SeqSet(self.hard_macro_indices) :
        repulsive_force_hard_macro_raises(self, repel_factor, m, h)

\* __fd_placement(io_factor, max_displacement, attract_factor, repel_factor):
\* one iteration.  The displacements are gathered before any module moves, so
\* an exception leaves the engine as it was.
fd_placement(self, io_factor, max_displacement, attract_factor, repel_factor) ==
    IF fd_placement_raises(self, repel_factor)
    THEN [plc |-> self, ret |-> Raise("ZeroDivisionError")]
    ELSE [plc |-> boundary_checks(
                      update_locations(self, io_factor, attract_factor, repel_factor),
                      self.soft_macro_indices),
          ret |-> Ok]


\* __centeralize_circle: r = sqrt(random.random()) < 1 micron from the centre
\* of the canvas, at the angle random.random() * 2 * pi.  offset is the point
\* drawn, one of three points of the half-micron lattice inside the circle.
CircleOffsets == {<<0, 0>>, <<1, -1>>, <<-1, 0>>}

centeralize_circle(self, mod_id, offset) ==
    [self EXCEPT !.modules_w_pins[mod_id].x = self.width \div 2 + offset[1],
                 !.modules_w_pins[mod_id].y = self.height \div 2 + offset[2]]

RECURSIVE centeralize_circles(_, _, _)
centeralize_circles(self, indices, offsets) ==
    IF indices = <<>> THEN self
    ELSE centeralize_circles(
             centeralize_circle(self, Head(indices), offsets[Head(indices)]),
             Tail(indices), offsets)

\* The run after one more iteration.
iterated(run, step) == [plc |-> step.plc, ret |-> step.ret, file |-> run.file]

\* for iter in range(iterations): self.__fd_placement(...).  run is
\* [plc, ret, file]; an exception ends the call.
RECURSIVE fd_iterations(_, _, _, _, _)
fd_iterations(run, iterations, io_factor, attract_factor, repel_factor) ==
    IF iterations <= 0 \/ run.ret.kind # "ok" THEN run
    ELSE fd_iterations(
             iterated(run, fd_placement(run.plc, io_factor, 0,
                                        attract_factor, repel_factor)),
             iterations - 1, io_factor, attract_factor, repel_factor)

\* self.save_placement('epoch_<epoch_id>.plc') at the end of an epoch.
save_epoch(run) ==
    IF run.ret.kind = "ok"
    THEN [run EXCEPT !.file = save_placement(run.plc, << <<>> >>)]
    ELSE run

\* for epoch_id, iterations in enumerate(num_steps): the iterations, then the
\* file.
RECURSIVE fd_epochs(_, _, _, _, _)
fd_epochs(run, num_steps, io_factor, attract_factor, repel_factor) ==
    IF num_steps = <<>> \/ run.ret.kind # "ok" THEN run
    ELSE fd_epochs(save_epoch(fd_iterations(run, Head(num_steps), io_factor,
                                            Head(attract_factor), Head(repel_factor))),
                   Tail(num_steps), io_factor,
                   Tail(attract_factor), Tail(repel_factor))

\* optimize_stdcells(use_current_loc, move_stdcells, move_macros,
\* log_scale_conns, use_sizes, io_factor, num_steps, max_move_distance,
\* attract_factor, repel_factor): [plc, ret, file], file the last file written.
optimize_stdcells(self, file, io_factor, num_steps, attract_factor, repel_factor, offsets) ==
    fd_epochs([plc |-> centeralize_circles(self, self.soft_macro_indices, offsets),
               ret |-> Ok, file |-> file],
              num_steps, io_factor, attract_factor, repel_factor)

\* ------------------------------------------- the standard-cell placer interface

\* Two square soft macros of one size and no net.
NetlistSoftPair(side, pos1, pos2) ==
    << [name |-> <<"S1">>, type |-> "macro", x |-> pos1[1], y |-> pos1[2],
        width |-> side, height |-> side, input |-> <<>>],
       [name |-> <<"S2">>, type |-> "macro", x |-> pos2[1], y |-> pos2[2],
        width |-> side, height |-> side, input |-> <<>>] >>

NetlistSoft2 == NetlistSoftPair(2, <<1, 1>>, <<5, 5>>)

\* A canvas of 3 by 3 microns in 3 by 3 cells: one iteration moves a soft
\* macro by 2 or 4 microns, past the border from anywhere near the centre.
FdCanvas == <<6, 6>>
FdGrid == <<3, 3>>

\* Where the caller has put the hard macro: off the centre of the canvas, or
\* on it, where a soft macro can come to sit on the hard macro's centre.
FdHardPositions == {<<4, 1>>, <<3, 3>>}

\* The schedules callers hand to optimize_stdcells: num_steps, attract_factor
\* and repel_factor, one entry per epoch.
FdSchedules ==
    {[num_steps |-> n, attract_factor |-> a, repel_factor |-> r] :
        <<n, a, r>> \in ({<<1>>} \X {<<0>>, <<1>>} \X {<<0>>, <<1>>})
                        \cup {<< <<0>>, <<0>>, <<1>> >>,
                              << <<2>>, <<0>>, <<1>> >>,
                              << <<1, 1>>, <<0, 1>>, <<1, 0>> >>}}

IoFactors == {1}

\* The number of calls of optimize_stdcells in a run.
MaxFd == 2

RECURSIVE fix_node_coords(_, _)
fix_node_coords(self, indices) ==
    IF indices = <<>> THEN self
    ELSE fix_node_coords(fix_node_coord(self, Head(indices)), Tail(indices))

\* The engine after construction, the hard macro put where the caller wants it
\* and some of the soft macros fixed.
InitFd ==
    /\ \E fixed \in {<<>>, <<0>>} :
           \/ plc = fix_node_coords(PlacementCost(NetlistSoft2, FdCanvas, FdGrid), fixed)
           \/ \E pos \in FdHardPositions :
                  LET self == PlacementCost(NetlistMacros, FdCanvas, FdGrid)
                      at == update_node_coords(
                                self, self.mod_name_to_indices[<<"H1">>], pos[1], pos[2])
                  IN plc = fix_node_coords(
                               at, [k \in DOMAIN fixed |-> at.soft_macro_indices[1]])
    /\ call = [op |-> "init", n |-> 0]
    /\ ret = Ok
    /\ plc_file = <<>>

\* The state optimize_stdcells leaves: the engine, the file and the outcome.
Optimized(run) ==
    /\ plc' = run.plc
    /\ plc_file' = run.file
    /\ ret' = run.ret

OptimizeStdcells ==
    \E schedule \in FdSchedules, io_factor \in IoFactors,
       offsets \in [SeqSet(plc.soft_macro_indices) -> CircleOffsets] :
        /\ Alive
        /\ call.n < MaxFd
        /\ Optimized(optimize_stdcells(plc, plc_file, io_factor, schedule.num_steps,
                                       schedule.attract_factor,
                                       schedule.repel_factor, offsets))
        /\ call' = [op |-> "optimize_stdcells", io_factor |-> io_factor,
                    num_steps |-> schedule.num_steps,
                    attract_factor |-> schedule.attract_factor,
                    repel_factor |-> schedule.repel_factor,
                    offsets |-> offsets, n |-> call.n + 1]

NextFd == OptimizeStdcells

SpecFd == InitFd /\ [][NextFd]_vars


\* ------------------------------------------- properties of the standard-cell placer

SoftMacros(self) == SeqSet(self.soft_macro_indices)

InsideCanvas(self, m) ==
    /\ 0 <= self.modules_w_pins[m].x /\ self.modules_w_pins[m].x <= self.width
    /\ 0 <= self.modules_w_pins[m].y /\ self.modules_w_pins[m].y <= self.height

\* The engine as the first iteration of the call just made found it, and as
\* update_location left it before any __boundary_check.
Centralized(self, c) == centeralize_circles(self, self.soft_macro_indices, c.offsets)

FirstMoved(self, c) ==
    update_locations(Centralized(self, c), c.io_factor,
                     c.attract_factor[1], c.repel_factor[1])

\* C16: while a module's fixed flag is set, update_node_coords,
\* set_soft_macro_position, place_node and optimize_stdcells leave its (x, y)
\* unchanged.  (Violated: optimize_stdcells randomises and then displaces every
\* soft macro, and update_node_coords and set_soft_macro_position call set_pos,
\* none of them reading the flag.)
C16_FixedStays ==
    [][call'.op \in {"update_node_coords", "set_soft_macro_position",
                     "place_node", "optimize_stdcells"}
       => \A i \in Placeable(plc) :
              get_fix_flag(plc.modules_w_pins[i])
              => /\ plc'.modules_w_pins[i].x = plc.modules_w_pins[i].x
                 /\ plc'.modules_w_pins[i].y = plc.modules_w_pins[i].y]_vars

\* C18: after a call of optimize_stdcells that ran at least one iteration of
\* __fd_placement without an exception, whatever the factors and the starting
\* positions, every soft macro's centre is in [0, width] x [0, height].
C18_SoftInsideCanvas ==
    (/\ call.op = "optimize_stdcells"
     /\ ret.kind = "ok"
     /\ \E e \in DOMAIN call.num_steps : call.num_steps[e] >= 1)
    => \A m \in SoftMacros(plc) : InsideCanvas(plc, m)

\* C18 witness: one iteration has pushed a soft macro past the right border
\* and the macro sits on the border.
C18_ClampedAtBorder ==
    /\ call.op = "optimize_stdcells"
    /\ ret.kind = "ok"
    /\ call.num_steps = <<1>>
    /\ \E m \in SoftMacros(plc) :
           /\ FirstMoved(plc, call).modules_w_pins[m].x > plc.width
           /\ plc.modules_w_pins[m].x = plc.width

\* C19: one iteration with repel_factor = 1.0 and no attraction on two soft
\* macros at identical coordinates, no hard macro about, leaves the two,
\* before the clamp, exactly 2.0 microns apart along one axis.  (Violated:
\* the force is (1, 1), each macro is displaced by 2.0 on both axes, and the
\* two end 4.0 apart in x and 4.0 apart in y.)
C19_CoincidentApartByTwo ==
    [][(/\ call'.op = "optimize_stdcells"
        /\ call'.num_steps = <<1>>
        /\ call'.repel_factor = <<1>>
        /\ call'.attract_factor = <<0>>
        /\ plc.hard_macro_indices = <<>>
        /\ Len(plc.soft_macro_indices) = 2
        /\ call'.offsets[plc.soft_macro_indices[1]]
               = call'.offsets[plc.soft_macro_indices[2]])
       => LET a == FirstMoved(plc, call').modules_w_pins[plc.soft_macro_indices[1]]
              b == FirstMoved(plc, call').modules_w_pins[plc.soft_macro_indices[2]]
          IN \/ Abs(a.x - b.x) = 4
             \/ Abs(a.y - b.y) = 4]_vars


\* -------------------------------------------- restored orientations

\* The records restore_placement reads from a file, by module index.
Records(file) ==
    read_plc(file, 1, [bad |-> FALSE, keys |-> <<>>, node_plc |-> <<>>]).node_plc

\* The pins restore_placement leaves as update_macro_orientation(m, o) would.
RotatedAsUpdate(before, after, m, o) ==
    /\ after.modules_w_pins[m].orientation = o
    /\ \A p \in PinsOf(before, m) :
           PinOffset(after, p) = PinOffset(update_macro_orientation(before, m, o), p)

\* C17: restore_placement, reading for a hard macro a record whose orientation
\* is not '-', sets the orientation and transforms the offsets of the macro's
\* pins as update_macro_orientation does.  (Violated: HardMacro.set_orientation
\* stores the orientation and leaves the pins as they are.)
C17_RestoreRotatesPins ==
    [][(call'.op = "restore_placement" /\ ret'.kind = "ok")
       => \A m \in SeqSet(plc.hard_macro_indices) :
              (/\ plc.modules_w_pins[m].name[1] \in DOMAIN plc.hard_macros_to_inpins
               /\ float_ok(Records(plc_file)[m][1])
               /\ float_ok(Records(plc_file)[m][2])
               /\ Records(plc_file)[m][3] # <<"-">>)
              => RotatedAsUpdate(plc, plc', m,
                                 orient_of(Records(plc_file)[m][3]))]_vars


\* ------------------------------------------------- the density of a large grid

\* A canvas of 10 by 10 microns in 10 by 10 cells.
DenseCanvas == <<20, 20>>
DenseGrid == <<10, 10>>

\* Two macros of 1 by 1 micron at (2, 2) and (8, 8), each over the corners of
\* four cells; two macros of 2 by 2 microns at (2.5, 2.5) and (7.5, 7.5), each
\* over nine cells.
InitDense ==
    /\ \/ plc = PlacementCost(NetlistSoftPair(2, <<4, 4>>, <<16, 16>>),
                              DenseCanvas, DenseGrid)
       \/ plc = PlacementCost(NetlistSoftPair(4, <<5, 5>>, <<15, 15>>),
                              DenseCanvas, DenseGrid)
    /\ call = [op |-> "init"]
    /\ ret = Ok
    /\ plc_file = <<>>

NextDense ==
    \/ GetDensityCost
    \/ SetSoftMacroPosition
    \/ UnplaceNode

SpecDense == InitDense /\ [][NextDense]_vars

\* The cells ahead of cell i when the cells are sorted by density, largest
\* first, equal densities by index.
Ahead(cells, i) ==
    {j \in DOMAIN cells :
        cells[j][1] > cells[i][1] \/ (cells[j][1] = cells[i][1] /\ j < i)}

\* The occupied areas of the k densest cells, by index.
TopAreas(cells, k) ==
    [n \in 1 .. PyLen(cells) |->
        IF Cardinality(Ahead(cells, n - 1)) < k THEN cells[n - 1][1] ELSE 0]

\* C20: on a grid of at least 10 cells get_density_cost returns 0.5 times the
\* sum of the k largest cell densities divided by k, k = floor(0.1 * rows *
\* cols), however few cells are occupied.
C20_DensityCostTopTenth ==
    (call.op = "get_density_cost" /\ PyLen(plc.grid_cells) >= 10)
    => ret = [kind |-> "ok",
              val |-> Rat(SumInts(TopAreas(plc.grid_cells,
                                           (plc.grid_row * plc.grid_col) \div 10)),
                          2 * grid_width(plc) * grid_height(plc)
                            * ((plc.grid_row * plc.grid_col) \div 10))]

\* C20 witness: the macros of 1 by 1 micron at (2, 2) and (8, 8) occupy eight
\* cells by a quarter each, fewer than k = 10, and the cost returned is 0.1.
C20_EightQuartersGiveTenth ==
    /\ call.op = "get_density_cost"
    /\ \A m \in SoftMacros(plc) : get_width(plc.modules_w_pins[m]) = 2
    /\ <<plc.modules_w_pins[0].x, plc.modules_w_pins[0].y>> = <<4, 4>>
    /\ <<plc.modules_w_pins[1].x, plc.modules_w_pins[1].y>> = <<16, 16>>
    /\ Cardinality({i \in DOMAIN plc.grid_cells : plc.grid_cells[i] = <<1, 4>>}) = 8
    /\ Cardinality({i \in DOMAIN plc.grid_cells : plc.grid_cells[i][1] # 0}) = 8
    /\ ret = [kind |-> "ok", val |-> <<1, 10>>]


\* ------------------------------------------------- the wirelength interface

\* The port drives the pins of both macros, the hard macro's pin drives the
\* soft macro's pin, which drives the port.
NetlistFanout ==
    << [name |-> <<"P0">>, type |-> "PORT", x |-> 0, y |-> 1,
        side |-> "LEFT", input |-> << <<"H1", "p">>, <<"S1", "p">> >>],
       [name |-> <<"H1">>, type |-> "MACRO", x |-> 4, y |-> 1,
        width |-> 4, height |-> 2, orientation |-> "N", input |-> <<>>],
       [name |-> <<"H1", "p">>, type |-> "MACRO_PIN", x |-> 4, y |-> 1,
        x_offset |-> 1, y_offset |-> 2, macro_name |-> <<"H1">>,
        weight |-> 2, input |-> << <<"S1", "p">> >>],
       [name |-> <<"S1">>, type |-> "macro", x |-> 1, y |-> 1,
        width |-> 2, height |-> 2, input |-> <<>>],
       [name |-> <<"S1", "p">>, type |-> "macro_pin", x |-> 1, y |-> 1,
        macro_name |-> <<"S1">>, weight |-> 1, input |-> << <<"P0">> >>] >>

\* Two soft macros at (2, 2) and (8, 8), the pin of the first driving the pin
\* of the second.
NetlistPinPair ==
    << [name |-> <<"S1">>, type |-> "macro", x |-> 4, y |-> 4,
        width |-> 2, height |-> 2, input |-> <<>>],
       [name |-> <<"S1", "p">>, type |-> "macro_pin", x |-> 4, y |-> 4,
        macro_name |-> <<"S1">>, weight |-> 1, input |-> << <<"S2", "p">> >>],
       [name |-> <<"S2">>, type |-> "macro", x |-> 16, y |-> 16,
        width |-> 2, height |-> 2, input |-> <<>>],
       [name |-> <<"S2", "p">>, type |-> "macro_pin", x |-> 16, y |-> 16,
        macro_name |-> <<"S2">>, weight |-> 1, input |-> <<>>] >>

\* Where callers move a module to before asking for the wirelength.
WirePositions == {<<3, 1>>, <<5, 0>>}

\* The orientations callers turn a macro to.
WireOrientations == {"N", "E", "FS"}

InitWire ==
    /\ \/ plc = PlacementCost(NetlistFanout, Canvas, Grid)
       \/ plc = PlacementCost(NetlistPinPair, DenseCanvas, DenseGrid)
    /\ call = [op |-> "init"]
    /\ ret = Ok
    /\ plc_file = <<>>

GetWirelength ==
    /\ Alive
    /\ call' = [op |-> "get_wirelength"]
    /\ ret' = [kind |-> "ok", val |-> get_wirelength(plc)]
    /\ UNCHANGED <<plc, plc_file>>

MoveNode ==
    \E node_idx \in Placeable(plc), pos \in WirePositions :
        /\ Alive
        /\ plc' = update_node_coords(plc, node_idx, pos[1], pos[2])
        /\ call' = [op |-> "update_node_coords", node_idx |-> node_idx]
        /\ ret' = Ok
        /\ UNCHANGED plc_file

TurnMacro ==
    \E node_idx \in SeqSet(plc.hard_macro_indices),
       orientation \in WireOrientations :
        /\ Alive
        /\ plc' = update_macro_orientation(plc, node_idx, orientation)
        /\ call' = [op |-> "update_macro_orientation", node_idx |-> node_idx,
                    orientation |-> orientation]
        /\ ret' = Ok
        /\ UNCHANGED plc_file

NextWire ==
    \/ GetWirelength
    \/ MoveNode
    \/ TurnMacro

SpecWire == InitWire /\ [][NextWire]_vars

\* ------------------------------------------------- properties of wirelength

\* The drivers: the ports and the pins of macros.
WireDrivers(self) ==
    SeqSet(self.port_indices) \cup SeqSet(self.hard_macro_pin_indices)
        \cup SeqSet(self.soft_macro_pin_indices)

\* Where a port or a pin is: a port at its own position, the pin of a hard
\* macro at the macro's position plus the offset the pin holds, the pin of a
\* soft macro at the macro's position.
WirePos(self, i) ==
    LET node == self.modules_w_pins[i]
    IN CASE node.cls = "Port" -> <<node.x, node.y>>
         [] node.cls = "HardMacroPin" ->
                <<self.modules_w_pins[self.mod_name_to_indices[node.macro_name]].x
                      + node.x_offset,
                  self.modules_w_pins[self.mod_name_to_indices[node.macro_name]].y
                      + node.y_offset>>
         [] node.cls = "SoftMacroPin" ->
                <<self.modules_w_pins[self.mod_name_to_indices[node.macro_name]].x,
                  self.modules_w_pins[self.mod_name_to_indices[node.macro_name]].y>>

\* The indices of the sinks of driver d.
WireSinks(self, d) ==
    {self.mod_name_to_indices[n] :
        n \in UNION {SeqSet(self.modules_w_pins[d].sink[k]) :
                        k \in DOMAIN self.modules_w_pins[d].sink}}

\* weight * (max_x - min_x + max_y - min_y) over driver d and its sinks, 0
\* for a driver without sinks.
WireTerm(self, d) ==
    LET at == {WirePos(self, i) : i \in {d} \cup WireSinks(self, d)}
        weight == IF self.modules_w_pins[d].cls = "Port" THEN 1
                  ELSE self.modules_w_pins[d].weight
    IN IF WireSinks(self, d) = {} THEN 0
       ELSE weight * (SetMax({p[1] : p \in at}) - SetMin({p[1] : p \in at})
                      + SetMax({p[2] : p \in at}) - SetMin({p[2] : p \in at}))

WireTerms(self, drivers) == [k \in 1 .. Len(drivers) |-> WireTerm(self, drivers[k])]

\* C21: get_wirelength returns the sum over the driver ports and driver pins
\* of weight * (max_x - min_x + max_y - min_y) over the driver and its sinks,
\* a port at its own position, the pin of a hard macro at the macro's position
\* plus the offset the pin holds after the macro's turns, the pin of a soft
\* macro at the macro's position; a driver without sinks adds 0.
C21_WirelengthIsSumOfBoxes ==
    call.op = "get_wirelength"
    => ret = [kind |-> "ok",
              val |-> SumInts(WireTerms(plc, SortedInts(WireDrivers(plc))))]

\* C21 witness: the pins of soft macros at (2, 2) and (8, 8), one driving the
\* other, give 12 microns.
C21_PinPairGivesTwelve ==
    /\ call.op = "get_wirelength"
    /\ plc.hard_macro_indices = <<>>
    /\ Len(plc.soft_macro_pin_indices) = 2
    /\ <<plc.modules_w_pins[0].x, plc.modules_w_pins[0].y>> = <<4, 4>>
    /\ <<plc.modules_w_pins[2].x, plc.modules_w_pins[2].y>> = <<16, 16>>
    /\ ret.val = 24


\* ------------------------------------------------------------ adjacency

\* The cell a port is clustered in: __get_grid_cell_location, the row and the
\* column brought into the grid.
port_cell(self, port_idx) ==
    LET cell == get_grid_cell_location(self, self.modules_w_pins[port_idx].x,
                                       self.modules_w_pins[port_idx].y)
    IN <<Min(Max(cell[1], 0), self.grid_row - 1),
         Min(Max(cell[2], 0), self.grid_col - 1)>>

\* The keys of clustered_ports in order of insertion.
RECURSIVE cluster_keys(_, _, _)
cluster_keys(self, ports, keys) ==
    IF ports = <<>> THEN keys
    ELSE cluster_keys(self, Tail(ports),
                      IF port_cell(self, Head(ports)) \in SeqSet(keys) THEN keys
                      ELSE Append(keys, port_cell(self, Head(ports))))

\* sorted(clustered_ports, key=lambda tup: tup[1]): by column, cells of one
\* column in order of insertion.
sorted_by_col(keys) ==
    [k \in 1 .. Len(keys) |->
        keys[CHOOSE a \in 1 .. Len(keys) :
                 Cardinality({b \in 1 .. Len(keys) :
                     \/ keys[b][2] < keys[a][2]
                     \/ keys[b][2] = keys[a][2] /\ b < a}) = k - 1]]

\* The entry the loops compute for two modules: what each holds in its
\* connection under the other's name.
adj_entry(self, curr_idx, h_idx) ==
    LET curr == self.modules_w_pins[curr_idx]
        h == self.modules_w_pins[h_idx]
    IN (IF curr.name[1] \in DOMAIN h.connection THEN h.connection[curr.name[1]] ELSE 0)
       + (IF h.name[1] \in DOMAIN curr.connection
          THEN curr.connection[h.name[1]] ELSE 0)

\* What the ports clustered in cell add at column col_idx, the columns
\* enumerated over module_indices as concatenated.
cluster_entry(self, cell, module_indices, col_idx) ==
    SumInts([k \in 1 .. Len(self.port_indices) |->
                IF port_cell(self, self.port_indices[k]) = cell
                THEN adj_entry(self, self.port_indices[k], module_indices[col_idx + 1])
                ELSE 0])

\* macro_adj for the macros in the order sorted and the clusters in the order
\* clusters, the side of the matrix being n.
macro_adj_of(self, module_indices, sorted, clusters, n) ==
    [e \in 0 .. n * n - 1 |->
        LET row == e \div n
            col == e % n
        IN IF row < Len(sorted) /\ col < Len(sorted)
           THEN adj_entry(self, sorted[row + 1], sorted[col + 1])
           ELSE IF row >= Len(sorted) /\ col < Len(sorted)
           THEN cluster_entry(self, clusters[row - Len(sorted) + 1],
                              module_indices, col)
           ELSE IF row < Len(sorted) /\ col >= Len(sorted)
           THEN cluster_entry(self, clusters[col - Len(sorted) + 1],
                              module_indices, row)
           ELSE 0]

\* get_macro_and_clustered_port_adjacency: <<macro_adj, sorted(cell_location)>>.
get_macro_and_clustered_port_adjacency(self) ==
    LET module_indices == self.hard_macro_indices \o self.soft_macro_indices
        clusters == sorted_by_col(cluster_keys(self, self.port_indices, <<>>))
    IN <<macro_adj_of(self, module_indices, SortedInts(SeqSet(module_indices)),
                      clusters, Len(module_indices) + Len(clusters)),
         SortedInts({c[1] * self.grid_col + c[2] : c \in SeqSet(clusters)})>>


\* Two ports, then a soft macro and its pin, then a hard macro and its pin:
\* P0 drives the hard macro's pin, P1 the soft macro's pin, the hard macro's
\* pin (weight 2) drives P1 and the soft macro's pin drives the hard one's.
NetlistAdj ==
    << [name |-> <<"P0">>, type |-> "PORT", x |-> 1, y |-> 3,
        side |-> "LEFT", input |-> << <<"H1", "p">> >>],
       [name |-> <<"P1">>, type |-> "PORT", x |-> 3, y |-> 1,
        side |-> "BOTTOM", input |-> << <<"S1", "p">> >>],
       [name |-> <<"S1">>, type |-> "macro", x |-> 1, y |-> 1,
        width |-> 2, height |-> 2, input |-> <<>>],
       [name |-> <<"S1", "p">>, type |-> "macro_pin", x |-> 1, y |-> 1,
        macro_name |-> <<"S1">>, weight |-> 1, input |-> << <<"H1", "p">> >>],
       [name |-> <<"H1">>, type |-> "MACRO", x |-> 5, y |-> 5,
        width |-> 2, height |-> 2, orientation |-> "N", input |-> <<>>],
       [name |-> <<"H1", "p">>, type |-> "MACRO_PIN", x |-> 5, y |-> 5,
        x_offset |-> 0, y_offset |-> 0, macro_name |-> <<"H1">>,
        weight |-> 2, input |-> << <<"P1">> >>] >>

\* Where callers move a port to before asking for the adjacency: a point
\* in each of four cells of the grid and one above the canvas.
AdjPositions == {<<1, 3>>, <<3, 1>>, <<1, 1>>, <<5, 5>>, <<3, 7>>}

\* The netlist above with a second pin q on the hard macro: pin p (weight 2)
\* drives p_sinks, pin q (weight weight) drives q_sinks.
NetlistTwoPins(weight, p_sinks, q_sinks) ==
    << [name |-> <<"P0">>, type |-> "PORT", x |-> 1, y |-> 3,
        side |-> "LEFT", input |-> << <<"H1", "p">> >>],
       [name |-> <<"P1">>, type |-> "PORT", x |-> 3, y |-> 1,
        side |-> "BOTTOM", input |-> << <<"S1", "p">> >>],
       [name |-> <<"S1">>, type |-> "macro", x |-> 1, y |-> 1,
        width |-> 2, height |-> 2, input |-> <<>>],
       [name |-> <<"S1", "p">>, type |-> "macro_pin", x |-> 1, y |-> 1,
        macro_name |-> <<"S1">>, weight |-> 1,
        input |-> << <<"H1", "p">>, <<"H1", "q">> >>],
       [name |-> <<"H1">>, type |-> "MACRO", x |-> 5, y |-> 5,
        width |-> 2, height |-> 2, orientation |-> "N", input |-> <<>>],
       [name |-> <<"H1", "p">>, type |-> "MACRO_PIN", x |-> 5, y |-> 5,
        x_offset |-> 0, y_offset |-> 0, macro_name |-> <<"H1">>,
        weight |-> 2, input |-> p_sinks],
       [name |-> <<"H1", "q">>, type |-> "MACRO_PIN", x |-> 5, y |-> 5,
        x_offset |-> 0, y_offset |-> 0, macro_name |-> <<"H1">>,
        weight |-> weight, input |-> q_sinks] >>

\* The weights of pin q and the sinks of the two pins.
PinWeights == {1, 2}
PinSinks == {<<>>, << <<"P1">> >>, << <<"S1", "p">> >>, << <<"P1">>, <<"S1", "p">> >>}

InitAdj ==
    /\ \/ plc = PlacementCost(NetlistAdj, RouteCanvas, RouteGrid)
       \/ \E weight \in PinWeights, p_sinks \in PinSinks \ {<<>>}, q_sinks \in PinSinks :
              plc = PlacementCost(NetlistTwoPins(weight, p_sinks, q_sinks),
                                  RouteCanvas, RouteGrid)
    /\ call = [op |-> "init"]
    /\ ret = Ok
    /\ plc_file = <<>>

GetMacroAndClusteredPortAdjacency ==
    /\ Alive
    /\ call' = [op |-> "get_macro_and_clustered_port_adjacency"]
    /\ ret' = [kind |-> "ok", val |-> get_macro_and_clustered_port_adjacency(plc)]
    /\ UNCHANGED <<plc, plc_file>>

UpdateNodeCoordsAdj ==
    \E node_idx \in SeqSet(plc.port_indices), pos \in AdjPositions :
        /\ Alive
        /\ plc' = update_node_coords(plc, node_idx, pos[1], pos[2])
        /\ call' = [op |-> "update_node_coords", node_idx |-> node_idx]
        /\ ret' = Ok
        /\ UNCHANGED plc_file

NextAdj == GetMacroAndClusteredPortAdjacency \/ UpdateNodeCoordsAdj

SpecAdj == InitAdj /\ [][NextAdj]_vars

\* The macros in ascending index order, the order of get_macro_adjacency.
AdjMacros(self) ==
    SortedInts(SeqSet(self.hard_macro_indices) \cup SeqSet(self.soft_macro_indices))

\* The ports whose clamped cell has the index cell_idx.
PortsInCell(self, cell_idx) ==
    {p \in SeqSet(self.port_indices) :
        port_cell(self, p)[1] * self.grid_col + port_cell(self, p)[2] = cell_idx}

\* The multiplicity between module a and module b, both directions.
Multiplicity(self, a, b) ==
    LET ma == self.modules_w_pins[a]
        mb == self.modules_w_pins[b]
    IN (IF mb.name[1] \in DOMAIN ma.connection THEN ma.connection[mb.name[1]] ELSE 0)
       + (IF ma.name[1] \in DOMAIN mb.connection THEN mb.connection[ma.name[1]] ELSE 0)

\* The multiplicities between the ports of a cell and a macro, summed.
CellMultiplicity(self, cell_idx, macro_idx) ==
    LET ports == SortedInts(PortsInCell(self, cell_idx))
    IN SumInts([k \in 1 .. Len(ports) |-> Multiplicity(self, ports[k], macro_idx)])

\* Row Len(macros) + k of the matrix holds, at column j, what the ports of
\* the k-th returned cell share with the j-th macro in ascending index order.
PortRowsMatch(self, adj, cells) ==
    LET macros == AdjMacros(self)
        n == Len(macros) + Len(cells)
    IN \A k \in 1 .. Len(cells), j \in 1 .. Len(macros) :
           adj[(Len(macros) + k - 1) * n + (j - 1)]
               = CellMultiplicity(self, cells[k], macros[j])

\* The returned cells are in ascending order of column.
AscendingColumns(self, cells) ==
    \A k \in 1 .. Len(cells) - 1 :
        cells[k] % self.grid_col <= cells[k + 1] % self.grid_col

\* C22: after get_macro_and_clustered_port_adjacency, appended row k is the
\* k-th cell of the returned cell list, its entry in macro column j is the
\* summed multiplicity between the ports of that cell and the j-th macro in
\* ascending index order, and the returned cells are in ascending order of
\* column.
C22_PortRowsFollowCellList ==
    call.op = "get_macro_and_clustered_port_adjacency"
    => /\ PortRowsMatch(plc, ret.val[1], ret.val[2])
       /\ AscendingColumns(plc, ret.val[2])


\* ------------------------------------------- the congestion getters' interface

\* get_horizontal_routing_congestion and get_vertical_routing_congestion:
\* get_routing under `if self.FLAG_UPDATE_CONGESTION`.
congestion_updated(self) ==
    IF self.FLAG_UPDATE_CONGESTION THEN get_routing(self)
    ELSE [plc |-> self, ret |-> Ok]

\* `return self.<attr>` once the update has not raised.
returned_grid(rt, attr) ==
    IF rt.ret.kind = "ok" THEN [kind |-> "ok", val |-> rt.plc[attr]] ELSE rt.ret

get_horizontal_routing_congestion_ret(self) ==
    returned_grid(congestion_updated(self), "H_routing_cong")

get_vertical_routing_congestion_ret(self) ==
    returned_grid(congestion_updated(self), "V_routing_cong")

\* A port at p0 driving the pin of a soft macro at p1.
NetlistPortPin(p0, p1) ==
    << [name |-> <<"P0">>, type |-> "PORT", x |-> p0[1], y |-> p0[2],
        side |-> "LEFT", input |-> << <<"S1", "p">> >>],
       [name |-> <<"S1">>, type |-> "macro", x |-> p1[1], y |-> p1[2],
        width |-> 2, height |-> 2, input |-> <<>>],
       [name |-> <<"S1", "p">>, type |-> "macro_pin", x |-> p1[1], y |-> p1[2],
        macro_name |-> <<"S1">>, weight |-> 1, input |-> <<>>] >>

\* A hard macro alone.
NetlistHard(pos, width, height) ==
    << [name |-> <<"H1">>, type |-> "MACRO", x |-> pos[1], y |-> pos[2],
        width |-> width, height |-> height, orientation |-> "N",
        input |-> <<>>] >>

\* The engine on a netlist, a canvas and a grid, with one route per micron
\* each way, no smoothing and the macro allocations alloc = <<h, v>>.
ConfiguredOn(netlist, canvas, grid, alloc) ==
    set_macro_routing_allocation(
        set_congestion_smooth_range(
            set_routes_per_micron(PlacementCost(netlist, canvas, grid), 1, 1),
            0),
        alloc[1], alloc[2])

\* The positions of the ports: the centres of the nine cells and a point
\* right of the canvas.
CongPositions == ({1, 3, 5} \X {1, 3, 5}) \cup {<<7, 1>>}

\* The centres and the sides of the hard macro, and the allocations.
HardCentres == {2, 3, 4} \X {2, 3, 4}
HardSides == {2, 4}
Allocations == {<<1, 1>>, <<2, 3>>}

InitCong ==
    /\ \/ \E p0 \in CongPositions, p1 \in CongPositions, p2 \in CongPositions :
              /\ PosLeq(p1, p2)
              /\ plc = Configured(NetlistPorts(p0, p1, p2, p2))
       \/ plc = ConfiguredOn(NetlistPortPin(<<0, 10>>, <<20, 10>>),
                             DenseCanvas, DenseGrid, <<1, 1>>)
       \/ \E pos \in HardCentres, w \in HardSides, h \in HardSides,
             alloc \in Allocations :
              plc = ConfiguredOn(NetlistHard(pos, w, h), RouteCanvas, RouteGrid, alloc)
       \/ plc = ConfiguredOn(NetlistHard(<<10, 10>>, 8, 8),
                             DenseCanvas, DenseGrid, <<1, 1>>)
    /\ call = [op |-> "init"]
    /\ ret = Ok
    /\ plc_file = <<>>

GetHorizontalRoutingCongestion ==
    /\ Alive
    /\ plc' = congestion_updated(plc).plc
    /\ call' = [op |-> "get_horizontal_routing_congestion"]
    /\ ret' = get_horizontal_routing_congestion_ret(plc)
    /\ UNCHANGED plc_file

GetVerticalRoutingCongestion ==
    /\ Alive
    /\ plc' = congestion_updated(plc).plc
    /\ call' = [op |-> "get_vertical_routing_congestion"]
    /\ ret' = get_vertical_routing_congestion_ret(plc)
    /\ UNCHANGED plc_file

SetSmoothRange ==
    \E smooth_range \in SmoothInputs :
        /\ Alive
        /\ plc' = set_congestion_smooth_range(plc, smooth_range)
        /\ call' = [op |-> "set_congestion_smooth_range"]
        /\ ret' = Ok
        /\ UNCHANGED plc_file

NextCong ==
    \/ GetHorizontalRoutingCongestion
    \/ GetVerticalRoutingCongestion
    \/ SetSmoothRange

SpecCong == InitCong /\ [][NextCong]_vars

\* ------------------------------------------------ properties of congestion

\* The grids hold one evaluation made without smoothing.
EvaluatedUnsmoothed(self) ==
    /\ ~ self.FLAG_UPDATE_CONGESTION
    /\ self.smooth_range = 0

\* The other cell of a net of two cells.
SinkCell(self, d) ==
    CHOOSE g \in net_gcells(self, d)[2] : g # net_gcells(self, d)[1]

\* The cells a net of two cells passes: the driver's row from the lower
\* column up to the one before the higher, the sink's column from the lower
\* row up to the one before the higher.
HCells(src, snk) ==
    {<<src[1], col>> : col \in Min(src[2], snk[2]) .. Max(src[2], snk[2]) - 1}

VCells(src, snk) ==
    {<<row, snk[2]>> : row \in Min(src[1], snk[1]) .. Max(src[1], snk[1]) - 1}

\* The demand written by the nets, read back from a grid that holds one
\* unsmoothed evaluation: the entry times the routes of a cell.
Demand(self, attr, routes, cell) ==
    RatMul(self[attr][cell[1] * self.grid_col + cell[2]], self[routes])

AllCells(self) == (0 .. self.grid_row - 1) \X (0 .. self.grid_col - 1)

\* The grids hold weight on the cells of hs and vs and nothing elsewhere.
DemandIs(self, hs, vs, weight) ==
    \A cell \in AllCells(self) :
        /\ Demand(self, "H_routing_cong", "grid_h_routes", cell)
               = (IF cell \in hs THEN <<weight, 1>> ELSE <<0, 1>>)
        /\ Demand(self, "V_routing_cong", "grid_v_routes", cell)
               = (IF cell \in vs THEN <<weight, 1>> ELSE <<0, 1>>)

\* C23: after an evaluation without smoothing of an engine with one net and
\* no hard macro, a net of two distinct cells whose passed cells are cells of
\* the grid has added the driver's weight to H_routing_cong on the driver's
\* row for each column from the lower to the one before the higher and to
\* V_routing_cong on the sink's column for each row from the lower to the one
\* before the higher, and to no other entry; a net within one cell has added
\* nothing.
C23_TwoCellNetRoute ==
    (/\ EvaluatedUnsmoothed(plc)
     /\ plc.hard_macro_indices = <<>>
     /\ Cardinality(Drivers(plc)) = 1)
    => LET d == CHOOSE m \in Drivers(plc) : TRUE
           net == net_gcells(plc, d)
       IN /\ Cardinality(net[2]) = 1 => DemandIs(plc, {}, {}, 1)
          /\ (/\ Cardinality(net[2]) = 2
              /\ HCells(net[1], SinkCell(plc, d)) \subseteq AllCells(plc)
              /\ VCells(net[1], SinkCell(plc, d)) \subseteq AllCells(plc))
             => /\ ret.kind = "ok"
                /\ DemandIs(plc, HCells(net[1], SinkCell(plc, d)),
                            VCells(net[1], SinkCell(plc, d)),
                            net_weight(plc.modules_w_pins[d]))

\* C23 (witness): a port at (0, 5) drives a pin at (10, 5) on a canvas of
\* 10 x 10 um with a grid of 10 x 10, one horizontal route per micron and no
\* smoothing; the horizontal congestion returned is 1 on the ten cells of row
\* 5 and 0 on all others.
C23_RowFiveIsOne ==
    /\ call.op = "get_horizontal_routing_congestion"
    /\ plc.grid_col = 10
    /\ plc.smooth_range = 0
    /\ plc.port_indices = <<0>>
    /\ <<plc.modules_w_pins[0].x, plc.modules_w_pins[0].y>> = <<0, 10>>
    /\ get_pin_position(plc, 2) = <<20, 10>>
    /\ ret.kind = "ok"
    /\ \A cell \in AllCells(plc) :
           ret.val[cell[1] * 10 + cell[2]]
               = (IF cell[1] = 5 THEN <<1, 1>> ELSE <<0, 1>>)


\* The three cells of a net in ascending order of (column, row) and of
\* (row, column).
ByXY(cells) ==
    CHOOSE s \in [1 .. 3 -> cells] :
        \A a, b \in 1 .. 3 :
            a < b => \/ s[a][2] < s[b][2]
                     \/ s[a][2] = s[b][2] /\ s[a][1] < s[b][1]

ByYX(cells) ==
    CHOOSE s \in [1 .. 3 -> cells] :
        \A a, b \in 1 .. 3 :
            a < b => \/ s[a][1] < s[b][1]
                     \/ s[a][1] = s[b][1] /\ s[a][2] < s[b][2]

\* A horizontal segment on a row from column a up to column b, a vertical
\* segment on a column between rows a and b.
HSeg(row, a, b) == {<<row, col>> : col \in a .. b - 1}
VSeg(col, a, b) == {<<row, col>> : row \in Min(a, b) .. Max(a, b) - 1}

\* The segments of the four patterns, <<horizontal, vertical>>.  A cell is
\* <<row, col>> = <<y, x>>.
LShape(s) ==
    << <<HSeg(s[1][1], s[1][2], s[2][2]), HSeg(s[2][1], s[2][2], s[3][2])>>,
       <<VSeg(s[2][2], s[1][1], s[2][1]), VSeg(s[3][2], s[2][1], s[3][1])>> >>

SpecialShape(s) ==
    << <<HSeg(s[1][1], s[1][2], s[2][2])>>,
       <<VSeg(s[2][2], s[1][1], Max(s[2][1], s[3][1]))>> >>

SameRowShape(s) ==
    << <<HSeg(s[1][1], s[1][2], s[2][2]), HSeg(s[2][1], s[2][2], s[3][2])>>,
       <<VSeg(s[2][2], s[1][1], s[2][1])>> >>

TShape(t) ==
    << <<HSeg(t[2][1], Min(t[1][2], Min(t[2][2], t[3][2])),
              Max(t[1][2], Max(t[2][2], t[3][2])))>>,
       <<VSeg(t[1][2], t[1][1], t[2][1]), VSeg(t[3][2], t[2][1], t[3][1])>> >>

IsLShape(s) ==
    /\ s[1][2] < s[2][2] /\ s[2][2] < s[3][2]
    /\ Min(s[1][1], s[3][1]) < s[2][1] /\ s[2][1] < Max(s[1][1], s[3][1])

IsSpecialShape(s) ==
    s[2][2] = s[3][2] /\ s[1][2] < s[2][2] /\ s[1][1] < Min(s[2][1], s[3][1])

\* The pattern of three cells, tried in the order L-shape, special, same
\* row, T-shape.
Pattern(cells) ==
    IF IsLShape(ByXY(cells)) THEN LShape(ByXY(cells))
    ELSE IF IsSpecialShape(ByXY(cells)) THEN SpecialShape(ByXY(cells))
    ELSE IF ByXY(cells)[2][1] = ByXY(cells)[3][1] THEN SameRowShape(ByXY(cells))
    ELSE TShape(ByYX(cells))

\* In how many of the segments a cell lies.
Passes(segs, cell) == Cardinality({k \in DOMAIN segs : cell \in segs[k]})

\* The grids hold weight once for every segment of the pattern through a
\* cell and nothing else.
PatternDemand(self, shape, weight) ==
    \A cell \in AllCells(self) :
        /\ Demand(self, "H_routing_cong", "grid_h_routes", cell)
               = <<weight * Passes(shape[1], cell), 1>>
        /\ Demand(self, "V_routing_cong", "grid_v_routes", cell)
               = <<weight * Passes(shape[2], cell), 1>>

\* C24: after an evaluation without smoothing of an engine with one net and
\* no hard macro, a net of three distinct cells of the grid, sorted by
\* (x, y), has added exactly the segments of the first pattern that applies
\* in the order L-shape, special, same row, T-shape (the last re-sorted by
\* (y, x)), whichever of the three cells the driver is in.
C24_ThreeCellNetPattern ==
    (/\ EvaluatedUnsmoothed(plc)
     /\ plc.hard_macro_indices = <<>>
     /\ Cardinality(Drivers(plc)) = 1)
    => LET d == CHOOSE m \in Drivers(plc) : TRUE
       IN (/\ Cardinality(net_gcells(plc, d)[2]) = 3
           /\ net_gcells(plc, d)[2] \subseteq AllCells(plc))
          => /\ ret.kind = "ok"
             /\ PatternDemand(plc, Pattern(net_gcells(plc, d)[2]),
                              net_weight(plc.modules_w_pins[d]))

\* C24 (witness): the driver in the cell (row 1, col 1) with sinks in
\* (row 0, col 0) and (row 2, col 0), a T-shape whose driver is the cell in
\* the middle: the horizontal grid returned holds 1 at (row 1, col 0) only,
\* the vertical grid 1 at (row 0, col 0) and (row 1, col 0) only.
C24_TShapeFromTheMiddle ==
    /\ call.op = "get_horizontal_routing_congestion"
    /\ EvaluatedUnsmoothed(plc)
    /\ plc.grid_col = 3
    /\ plc.hard_macro_indices = <<>>
    /\ Drivers(plc) = {0}
    /\ net_gcells(plc, 0) = << <<1, 1>>, {<<1, 1>>, <<0, 0>>, <<2, 0>>} >>
    /\ ret.kind = "ok"
    /\ \A i \in 0 .. 8 :
           /\ ret.val[i] = (IF i = 3 THEN <<1, 1>> ELSE <<0, 1>>)
           /\ plc.V_routing_cong[i] = (IF i \in {0, 3} THEN <<1, 1>> ELSE <<0, 1>>)


\* The box of a macro in half-microns.
MacroBox(mod) ==
    Block(mod.x + mod.width \div 2, mod.y + mod.height \div 2,
          mod.x - mod.width \div 2, mod.y - mod.height \div 2)

\* The box has its edges on grid lines and lies inside the canvas.
OnGridLines(self, box) ==
    /\ box.x_min % grid_width(self) = 0 /\ box.x_max % grid_width(self) = 0
    /\ box.y_min % grid_height(self) = 0 /\ box.y_max % grid_height(self) = 0
    /\ 0 <= box.x_min /\ box.x_max <= self.width
    /\ 0 <= box.y_min /\ box.y_max <= self.height

\* The cells inside the box.
CoveredCells(self, box) ==
    {cell \in AllCells(self) :
        /\ box.x_min <= cell[2] * grid_width(self)
        /\ (cell[2] + 1) * grid_width(self) <= box.x_max
        /\ box.y_min <= cell[1] * grid_height(self)
        /\ (cell[1] + 1) * grid_height(self) <= box.y_max}

\* The entries of the two macro grids.
MacroEntries(self) ==
    {self.V_macro_routing_cong[i] : i \in DOMAIN self.V_macro_routing_cong}
        \cup {self.H_macro_routing_cong[i] : i \in DOMAIN self.H_macro_routing_cong}

\* C25: no entry of V_macro_routing_cong or H_macro_routing_cong is ever
\* negative, and after an evaluation of an engine whose only module is a hard
\* macro with its edges on grid lines inside the canvas, every cell it covers
\* holds, before the division by the routes of a cell, the cell's width times
\* the vertical allocation in V_macro_routing_cong and the cell's height
\* times the horizontal allocation in H_macro_routing_cong, every other cell
\* nothing.
C25_WholeCellMacroCongestion ==
    /\ \A q \in MacroEntries(plc) : RatLeq(<<0, 1>>, q)
    /\ (/\ ~ plc.FLAG_UPDATE_CONGESTION
        /\ PyLen(plc.modules_w_pins) = 1
        /\ plc.hard_macro_indices = <<0>>
        /\ OnGridLines(plc, MacroBox(plc.modules_w_pins[0])))
       => \A cell \in AllCells(plc) :
              /\ Demand(plc, "V_macro_routing_cong", "grid_v_routes", cell)
                     = (IF cell \in CoveredCells(plc, MacroBox(plc.modules_w_pins[0]))
                        THEN Rat(grid_width(plc) * plc.vrouting_alloc, 2)
                        ELSE <<0, 1>>)
              /\ Demand(plc, "H_macro_routing_cong", "grid_h_routes", cell)
                     = (IF cell \in CoveredCells(plc, MacroBox(plc.modules_w_pins[0]))
                        THEN Rat(grid_height(plc) * plc.hrouting_alloc, 2)
                        ELSE <<0, 1>>)


\* ------------------------------------------------- properties of the parse

\* The pins of a macro.
MacroPins(self, macro_idx) ==
    {p \in DOMAIN self.modules_w_pins :
        /\ self.modules_w_pins[p].cls \in {"HardMacroPin", "SoftMacroPin"}
        /\ self.modules_w_pins[p].macro_name = self.modules_w_pins[macro_idx].name}

\* How many sinks of a pin belong to a module.
SinksIn(self, pin_idx, target_idx) ==
    LET sink == self.modules_w_pins[pin_idx].sink
        target == self.modules_w_pins[target_idx].name[1]
    IN IF target \in DOMAIN sink THEN Len(sink[target]) ELSE 0

\* What a macro holds in its connection for a module.
Connection(self, macro_idx, target_idx) ==
    LET connection == self.modules_w_pins[macro_idx].connection
        target == self.modules_w_pins[target_idx].name[1]
    IN IF target \in DOMAIN connection THEN connection[target] ELSE 0

\* The weights of the pins of a macro, each times its sinks in a module,
\* summed.
WeightedSinks(self, macro_idx, target_idx) ==
    LET pins == SortedInts(MacroPins(self, macro_idx))
    IN SumInts([k \in 1 .. Len(pins) |->
                   self.modules_w_pins[pins[k]].weight
                       * SinksIn(self, pins[k], target_idx)])

\* C26: after parsing, what every macro holds in its connection for every
\* port and macro is the sum over the macro's pins of the pin's weight times
\* the number of the pin's sinks in that module.
C26_ConnectionIsWeightedSinks ==
    \A macro_idx \in SeqSet(plc.hard_macro_indices) \cup SeqSet(plc.soft_macro_indices) :
        \A target_idx \in Placeable(plc) :
            Connection(plc, macro_idx, target_idx)
                = WeightedSinks(plc, macro_idx, target_idx)


\* --------------------------------------------------- the attraction pass

\* The calls of __attractive_force in the attraction pass of __fd_placement:
\* one for every driver pin of a soft macro and every key of its sinks whose
\* module the driver's macro does not overlap, with io_flag left at its
\* default.  No call is made with attract_factor at zero.
attractive_forces(self, io_factor, attract_factor) ==
    IF attract_factor = 0 THEN {}
    ELSE { [driver_mod_idx |-> get_ref_node_id(self, t[1]),
            sink_mod_idx |-> self.mod_name_to_indices[<<t[2]>>],
            force |-> attractive_force(self, io_factor, attract_factor,
                                       get_ref_node_id(self, t[1]),
                                       self.mod_name_to_indices[<<t[2]>>], TRUE)] :
           t \in {u \in attract_pairs(self) :
                     ~ ifOverlap(self, get_ref_node_id(self, u[1]),
                                 self.mod_name_to_indices[<<u[2]>>],
                                 <<0, 1>>, <<0, 1>>, <<0, 1>>, <<0, 1>>)} }

\* A port and two soft macros of 1 x 1 um; the pin of the first macro drives
\* the pin of the second and the port.
NetlistPull(pos1, pos2) ==
    << [name |-> <<"P0">>, type |-> "PORT", x |-> 0, y |-> 5,
        side |-> "LEFT", input |-> <<>>],
       [name |-> <<"S1">>, type |-> "macro", x |-> pos1[1], y |-> pos1[2],
        width |-> 2, height |-> 2, input |-> <<>>],
       [name |-> <<"S1", "p">>, type |-> "macro_pin", x |-> pos1[1], y |-> pos1[2],
        macro_name |-> <<"S1">>, weight |-> 1,
        input |-> << <<"S2", "p">>, <<"P0">> >>],
       [name |-> <<"S2">>, type |-> "macro", x |-> pos2[1], y |-> pos2[2],
        width |-> 2, height |-> 2, input |-> <<>>],
       [name |-> <<"S2", "p">>, type |-> "macro_pin", x |-> pos2[1], y |-> pos2[2],
        macro_name |-> <<"S2">>, weight |-> 1, input |-> <<>>] >>

\* Where the soft macros are put, and the factors of the pass.
PullPositions == {<<1, 1>>, <<5, 1>>, <<3, 3>>, <<5, 5>>}
PullFactors == {1, 2}
AttractFactors == {0, 1, 2}

InitPull ==
    /\ \E pos1 \in PullPositions, pos2 \in PullPositions :
           plc = PlacementCost(NetlistPull(pos1, pos2), FdCanvas, FdGrid)
    /\ call = [op |-> "init"]
    /\ ret = Ok
    /\ plc_file = <<>>

AttractiveForces ==
    \E io_factor \in PullFactors, attract_factor \in AttractFactors :
        /\ Alive
        /\ call' = [op |-> "attractive_force", io_factor |-> io_factor,
                    attract_factor |-> attract_factor]
        /\ ret' = [kind |-> "ok",
                   val |-> attractive_forces(plc, io_factor, attract_factor)]
        /\ UNCHANGED <<plc, plc_file>>

PutSoftMacro ==
    \E node_idx \in SeqSet(plc.soft_macro_indices), pos \in PullPositions :
        /\ Alive
        /\ plc' = set_soft_macro_position(plc, node_idx, pos[1], pos[2])
        /\ call' = [op |-> "set_soft_macro_position", node_idx |-> node_idx]
        /\ ret' = Ok
        /\ UNCHANGED plc_file

NextPull == AttractiveForces \/ PutSoftMacro

SpecPull == InitPull /\ [][NextPull]_vars

\* The factor a pair is to be pulled with: io_factor with a port at either
\* end, attract_factor between two macros.
PullFactor(self, pull, io_factor, attract_factor) ==
    IF \/ get_type(self.modules_w_pins[pull.driver_mod_idx]) = "PORT"
       \/ get_type(self.modules_w_pins[pull.sink_mod_idx]) = "PORT"
    THEN io_factor ELSE attract_factor

\* The distance __attractive_force measures between the two modules of a
\* pair on an axis.
PullDist(self, pull, axis) ==
    LET mod_i == self.modules_w_pins[pull.driver_mod_idx]
        mod_j == self.modules_w_pins[pull.sink_mod_idx]
    IN IF axis = 1 THEN attract_dist(mod_i.x, mod_j.x, mod_i, mod_j)
       ELSE attract_dist(mod_i.y, mod_j.y, mod_i, mod_j)

\* C27: every force of the attraction pass is the pair's distance times
\* io_factor where a port is at either end, times attract_factor where both
\* ends are macros.  (Violated: the pass calls __attractive_force without
\* io_flag, which defaults to True, and io_factor is used for every pair.)
C27_FactorByEndpoints ==
    call.op = "attractive_force"
    => \A pull \in ret.val : \A axis \in {1, 2} :
           pull.force[axis]
               = RatMul(<<PullFactor(plc, pull, call.io_factor, call.attract_factor), 1>>,
                        PullDist(plc, pull, axis))


\* --------------------------------------------- properties of placed_macro

\* C28: in every state reached by place_node, unplace_node,
\* unplace_all_nodes, fix_node_coord and unfix_node_coord, every hard or soft
\* macro whose placed flag is set is in placed_macro.  (Violated:
\* unplace_all_nodes empties placed_macro and leaves the placed flag of the
\* fixed macros set.)
C28_PlacedIsInPlacedMacro ==
    \A m \in PlacedMacros(plc) : m \in SeqSet(plc.placed_macro)

\* C29: unplace_node on a hard macro that is not fixed never raises, and on
\* one whose placed flag is already cleared it leaves placed_macro as it was.
\* (Violated: placed_macro.remove(node_idx) raises ValueError when the macro
\* is not in the list.)
C29_UnplaceTwiceIsQuiet ==
    [][(/\ call'.op = "unplace_node"
        /\ is_node_hard_macro(plc, call'.node_idx)
        /\ ~ get_fix_flag(plc.modules_w_pins[call'.node_idx]))
       => /\ ret'.kind = "ok"
          /\ ~ get_placed_flag(plc.modules_w_pins[call'.node_idx])
             => plc'.placed_macro = plc.placed_macro]_vars


\* ---------------------------------------------- repeated congestion calls

\* sum(xxs[0:cnt]) of abu: the cnt largest of the entries at the indices left.
RECURSIVE top_rats(_, _, _)
top_rats(xx, left, cnt) ==
    IF cnt = 0 \/ left = {} THEN <<0, 1>>
    ELSE LET i == CHOOSE a \in left : \A b \in left : RatLeq(xx[b], xx[a])
         IN RatAdd(xx[i], top_rats(xx, left \ {i}, cnt - 1))

\* abu(xx, n) for n = n_pct / 100: the mean of the floor(len(xx) * n) largest
\* entries, the largest entry when that count is 0.
abu(xx, n_pct) ==
    IF (Len(xx) * n_pct) \div 100 = 0
    THEN top_rats(xx, DOMAIN xx, 1)
    ELSE RatDiv(top_rats(xx, DOMAIN xx, (Len(xx) * n_pct) \div 100),
                <<(Len(xx) * n_pct) \div 100, 1>>)

\* get_congestion_cost: abu(self.V_routing_cong + self.H_routing_cong, 0.05)
\* once the update has not raised.
congestion_cost_of(rt) ==
    IF rt.ret.kind = "ok"
    THEN [kind |-> "ok",
          val |-> abu(ToSeq(rt.plc.V_routing_cong) \o ToSeq(rt.plc.H_routing_cong), 5)]
    ELSE rt.ret

get_congestion_cost_ret(self) == congestion_cost_of(congestion_updated(self))

\* Where the ports of the net are, and where the hard macro is.
EvalPositions == {<<1, 1>>, <<3, 3>>, <<5, 1>>, <<5, 5>>}
EvalCentres == {<<2, 2>>, <<3, 3>>}

InitEval ==
    /\ \/ \E p0 \in EvalPositions, p1 \in EvalPositions, p2 \in EvalPositions :
              /\ PosLeq(p1, p2)
              /\ plc = Configured(NetlistPorts(p0, p1, p2, p2))
       \/ \E pos \in EvalCentres :
              plc = ConfiguredOn(NetlistHard(pos, 2, 2), RouteCanvas, RouteGrid,
                                 <<1, 1>>)
    /\ call = [op |-> "init", n |-> 0]
    /\ ret = Ok
    /\ plc_file = <<>>

\* get_routing, called at most MaxRouted times in a run.
Routing ==
    /\ Alive
    /\ call.n < MaxRouted
    /\ plc' = get_routing(plc).plc
    /\ call' = [op |-> "get_routing", n |-> call.n + 1]
    /\ ret' = get_routing(plc).ret
    /\ UNCHANGED plc_file

CongestionCost ==
    /\ Alive
    /\ plc' = congestion_updated(plc).plc
    /\ call' = [op |-> "get_congestion_cost", n |-> call.n]
    /\ ret' = get_congestion_cost_ret(plc)
    /\ UNCHANGED plc_file

VerticalRoutingCongestion ==
    /\ Alive
    /\ plc' = congestion_updated(plc).plc
    /\ call' = [op |-> "get_vertical_routing_congestion", n |-> call.n]
    /\ ret' = get_vertical_routing_congestion_ret(plc)
    /\ UNCHANGED plc_file

HorizontalRoutingCongestion ==
    /\ Alive
    /\ plc' = congestion_updated(plc).plc
    /\ call' = [op |-> "get_horizontal_routing_congestion", n |-> call.n]
    /\ ret' = get_horizontal_routing_congestion_ret(plc)
    /\ UNCHANGED plc_file

NextEval ==
    \/ Routing
    \/ CongestionCost
    \/ VerticalRoutingCongestion
    \/ HorizontalRoutingCongestion

SpecEval == InitEval /\ [][NextEval]_vars

\* The four congestion grids.
CongestionGrids(self) ==
    <<self.V_routing_cong, self.H_routing_cong,
      self.V_macro_routing_cong, self.H_macro_routing_cong>>

\* C30: once the congestion has been evaluated, a call of get_routing,
\* get_congestion_cost, get_vertical_routing_congestion or
\* get_horizontal_routing_congestion leaves the four grids as they are.
\* (Violated: get_routing resets the grids only with FLAG_UPDATE_CONGESTION
\* set, but routes, normalises, smooths and sums on every call.)
C30_EvaluationIdempotent ==
    [][~ plc.FLAG_UPDATE_CONGESTION
       => CongestionGrids(plc') = CongestionGrids(plc)]_vars

====
